---- MODULE Spec2Model ----
(***************************************************************************)
(* State-machine model of the permaculture site designer in src/src/App.js *)
(* (the App component, BoundaryUtils, DEMUtils and the placement           *)
(* synthesizer autoDesignLayout).                                          *)
(*                                                                         *)
(* Conventions.  Latitudes and longitudes are integers in micro-degrees    *)
(* (1e-6 degree), so 0.0001 degree is 100.  A position array [lat, lng] is *)
(* the tuple <<lat, lng>>, a GeoJSON ring vertex [lng, lat] is the tuple   *)
(* <<lng, lat>>, a Leaflet LatLng object is the record [lat, lng].         *)
(* Elevations are integers in decimetres (the code rounds to one decimal). *)
(* JavaScript null is the record Null.                                     *)
(***************************************************************************)
EXTENDS Integers, Sequences, FiniteSets, TLC

(***************************************************************************)
(* Bounds of the model (not program constants).                            *)
(***************************************************************************)
\* generateDEM's grid density `points` (15 in the code, line 539) scaled down
DemPoints == 3
\* how many elements the user may place by map clicks in one run
MaxPlacements == 1
\* how many times the user may request a placement synthesis in one run
MaxRequests == 2
\* how many boundary create/edit/delete events the user may issue in one run
MaxBoundaryEvents == 2
\* how many times the user may drag a marker in one run
MaxDrags == 1
\* at most this many placements, drags, requests and boundary events in all
MaxEvents == 3
\* milliseconds that pass between two handlers that read Date.now()
ClockStep == 100
\* the climate lookups in flight at one time, cancelled ones included
MaxLookups == 2

(***************************************************************************)
(* Program constants, in micro-degrees unless noted.                       *)
(***************************************************************************)
InitLat == 10850500
InitLng == 76271100
DefaultLat == 10850000
DefaultLng == 76270000
WindDirection == 225
ManualPolygonRadius == 2000
ManualLineLength == 3000
DefaultBoundarySize == 10000
MinBoundarySize == 100
CompostOffsetLat == 300
CompostOffsetLng == 200
CoopOffsetLat == 500
CoopOffsetLng == 400
BeeOffsetLat == 400
BeeOffsetLng == -300
ShedOffsetLat == 100
ShedOffsetLng == 200
HighLowCount == 20
SwaleCap == 3
ContourMinPoints == 10
NeighborWindow == 3000
MinElevation == 20
AttemptBudget == 1000

Null == [type |-> "null"]

(***************************************************************************)
(* Arithmetic helpers standing in for floating point.                      *)
(***************************************************************************)
Min(a, b) == IF a < b THEN a ELSE b
Max(a, b) == IF a > b THEN a ELSE b
Abs(a) == IF a < 0 THEN -a ELSE a

\* a / b rounded to the nearest integer, b > 0
RoundDiv(a, b) == (2 * a + b) \div (2 * b)

\* the least integer >= a / b, b # 0
CeilDiv(a, b) == IF b > 0 THEN -((-a) \div b) ELSE -(a \div (-b))

RECURSIVE SqrtSearch(_, _, _)
SqrtSearch(n, lo, hi) ==
  IF lo >= hi THEN lo
  ELSE LET mid == (lo + hi + 1) \div 2
       IN  IF mid * mid <= n THEN SqrtSearch(n, mid, hi)
           ELSE SqrtSearch(n, lo, mid - 1)

\* Math.sqrt, rounded to the nearest micro-degree
Sqrt(n) ==
  LET r == SqrtSearch(n, 0, 40000)
  IN  IF n - r * r > r THEN r + 1 ELSE r

\* 1000 * cos(5 * k degrees), k = 0..71
CosTable ==
  << 1000,   996,   985,   966,   940,   906,   866,   819,   766,   707,   643,   574,
      500,   423,   342,   259,   174,    87,     0,   -87,  -174,  -259,  -342,  -423,
     -500,  -574,  -643,  -707,  -766,  -819,  -866,  -906,  -940,  -966,  -985,  -996,
    -1000,  -996,  -985,  -966,  -940,  -906,  -866,  -819,  -766,  -707,  -643,  -574,
     -500,  -423,  -342,  -259,  -174,   -87,     0,    87,   174,   259,   342,   423,
      500,   574,   643,   707,   766,   819,   866,   906,   940,   966,   985,   996 >>

\* r * Math.cos(deg * Math.PI / 180) for deg a multiple of 5
MulCos(r, deg) == RoundDiv(r * CosTable[((deg % 360) \div 5) + 1], 1000)
\* r * Math.sin(deg * Math.PI / 180): sin(a) = cos(a - 90)
MulSin(r, deg) == MulCos(r, deg + 270)

(***************************************************************************)
(* Sequence helpers (Array.prototype.filter / map / some).                 *)
(***************************************************************************)
Range(s) == { s[i] : i \in DOMAIN s }
Take(s, n) == SubSeq(s, 1, Min(n, Len(s)))

\* the smallest / largest member of a non-empty set of integers
MinOf(S) == CHOOSE x \in S : \A y \in S : x <= y
MaxOf(S) == CHOOSE x \in S : \A y \in S : x >= y

RECURSIVE SumSeq(_)
SumSeq(s) == IF s = << >> THEN 0 ELSE Head(s) + SumSeq(Tail(s))

RECURSIVE MulDivNat(_, _, _)
\* <<q, r>> with a * b = q * c + r and 0 <= r < c, for a >= 0, 0 <= b, c > 0,
\* computed by halving a so that no intermediate product leaves 32 bits
MulDivNat(a, b, c) ==
  IF a = 0 THEN << 0, 0 >>
  ELSE LET h == MulDivNat(a \div 2, b, c)
           t == 2 * h[2] + (a % 2) * (b % c)
       IN  << 2 * h[1] + (a % 2) * (b \div c) + t \div c, t % c >>

\* a * b / c rounded to the nearest integer, for b >= 0 and c > 0
MulDiv(a, b, c) ==
  LET m == MulDivNat(Abs(a), b, c)
      q == IF 2 * m[2] >= c THEN m[1] + 1 ELSE m[1]
  IN  IF a < 0 THEN -q ELSE q

RECURSIVE InsertByKey(_, _)
\* insert the entry e = <<k1, k2, value>> after every entry whose key is <= its own
InsertByKey(sorted, e) ==
  IF sorted = << >> THEN << e >>
  ELSE LET h == Head(sorted)
       IN  IF h[1] < e[1] \/ (h[1] = e[1] /\ h[2] <= e[2])
           THEN << h >> \o InsertByKey(Tail(sorted), e)
           ELSE << e >> \o sorted

RECURSIVE SortByKey(_)
\* Array.prototype.sort on <<k1, k2, value>> entries: ascending in (k1, k2), stable
SortByKey(s) ==
  IF s = << >> THEN << >>
  ELSE InsertByKey(SortByKey(SubSeq(s, 1, Len(s) - 1)), s[Len(s)])

Values(entries) == [ i \in DOMAIN entries |-> entries[i][3] ]

(***************************************************************************)
(* pointInPolygon and BoundaryUtils.                                       *)
(***************************************************************************)
\* a GeoJSON Feature as layer.toGeoJSON() of a drawn polygon returns it
Feature(ring) ==
  [type |-> "Feature",
   geometry |-> [type |-> "Polygon", coordinates |-> << ring >>]]

\* boundary && boundary.geometry && boundary.geometry.coordinates
HasGeometry(bnd) == bnd.type # "null" /\ "geometry" \in DOMAIN bnd

Ring(bnd) == bnd.geometry.coordinates[1]

\* one edge (vi, vj) of the ray cast from point = <<x, y>>.  The quotient is
\* compared exactly; Number.EPSILON, which the code adds to a denominator
\* that is never 0 here, moves it by a relative 1e-13 at most.
Intersect(point, vi, vj) ==
  /\ (vi[2] > point[2]) # (vj[2] > point[2])
  /\ point[1] - vi[1] < CeilDiv((vj[1] - vi[1]) * (point[2] - vi[2]), vj[2] - vi[2])

\* a test against the bounding box of the ring instead of the ring
PointInBoundingBox(point, vs) ==
  /\ \E i \in DOMAIN vs : vs[i][1] <= point[1]
  /\ \E i \in DOMAIN vs : vs[i][1] > point[1]
  /\ \E i \in DOMAIN vs : vs[i][2] <= point[2]
  /\ \E i \in DOMAIN vs : vs[i][2] > point[2]

pointInPolygon(point, vs) ==
  LET n == Len(vs)
      prev(i) == IF i = 1 THEN n ELSE i - 1
  IN  Cardinality({ i \in 1..n : Intersect(point, vs[i], vs[prev(i)]) }) % 2 = 1

\* isPointInBoundary called with an array: the array is read as [lat, lng]
isPointInBoundary(point, bnd) ==
  IF ~HasGeometry(bnd) THEN TRUE
  ELSE pointInPolygon(<< point[2], point[1] >>, Ring(bnd))

\* isPointInBoundary called with an object {lat, lng}
isPointInBoundaryLatLng(point, bnd) ==
  IF ~HasGeometry(bnd) THEN TRUE
  ELSE pointInPolygon(<< point.lng, point.lat >>, Ring(bnd))

\* points are records with lat and lng fields (DEM or topography samples)
filterPointsInBoundary(points, bnd) ==
  IF ~HasGeometry(bnd) THEN points
  ELSE LET inside(p) == pointInPolygon(<< p.lng, p.lat >>, Ring(bnd))
       IN  SelectSeq(points, inside)

\* the bounding box of a ring of <<lng, lat>> vertices
BBox(coords) ==
  [minLat |-> MinOf({ coords[i][2] : i \in DOMAIN coords }),
   maxLat |-> MaxOf({ coords[i][2] : i \in DOMAIN coords }),
   minLng |-> MinOf({ coords[i][1] : i \in DOMAIN coords }),
   maxLng |-> MaxOf({ coords[i][1] : i \in DOMAIN coords })]

\* the values of the pair (Math.random() for lng, Math.random() for lat), in
\* thousandths, that one iteration of the sampling loop may draw
RandomDraws == { << 125, 125 >>, << 500, 500 >> }

\* The set of points generateRandomPointInBoundary can return: a draw that is
\* inside the ring, or, once more than 1000 attempts were made, the middle
\* of the bounding box whether it is inside or not.
generateRandomPointInBoundary(bnd) ==
  IF ~HasGeometry(bnd) THEN { << DefaultLat, DefaultLng >> }
  ELSE LET coordinates == Ring(bnd)
           b == BBox(coordinates)
           draws == { << b.minLat + RoundDiv(d[2] * (b.maxLat - b.minLat), 1000),
                         b.minLng + RoundDiv(d[1] * (b.maxLng - b.minLng), 1000) >> :
                      d \in RandomDraws }
       IN  { p \in draws : pointInPolygon(<< p[2], p[1] >>, coordinates) }
           \cup { << b.minLat + (b.maxLat - b.minLat) \div 2,
                     b.minLng + (b.maxLng - b.minLng) \div 2 >> }

\* the closest point to (px, py) on the segment (x1, y1)-(x2, y2)
findClosestPointOnSegment(px, py, x1, y1, x2, y2) ==
  LET A == px - x1
      B == py - y1
      C == x2 - x1
      D == y2 - y1
      dot == A * C + B * D
      lenSq == C * C + D * D
  IN  IF lenSq = 0 \/ dot < 0 THEN << x1, y1 >>
      ELSE IF dot > lenSq THEN << x2, y2 >>
      ELSE << x1 + MulDiv(C, dot, lenSq), y1 + MulDiv(D, dot, lenSq) >>

\* the square of calculateDistanceBetweenPoints, which orders distances alike
DistanceSq(x1, y1, x2, y2) == (x2 - x1) * (x2 - x1) + (y2 - y1) * (y2 - y1)

RECURSIVE ClosestFrom(_, _, _, _, _, _)
\* the loop of findClosestPointOnBoundary from segment i on; best is the
\* closest point so far ([lat, lng]) and bestSq its squared distance (-1: Infinity)
ClosestFrom(lng, lat, coordinates, i, best, bestSq) ==
  IF i > Len(coordinates) - 1 THEN best
  ELSE LET closest == findClosestPointOnSegment(lng, lat,
                        coordinates[i][1], coordinates[i][2],
                        coordinates[i + 1][1], coordinates[i + 1][2])
           d == DistanceSq(lng, lat, closest[1], closest[2])
       IN  IF bestSq = -1 \/ d < bestSq
           THEN ClosestFrom(lng, lat, coordinates, i + 1, << closest[2], closest[1] >>, d)
           ELSE ClosestFrom(lng, lat, coordinates, i + 1, best, bestSq)

\* findClosestPointOnBoundary called with an array [lat, lng]
findClosestPointOnBoundary(point, bnd) ==
  IF ~HasGeometry(bnd) THEN point
  ELSE ClosestFrom(point[2], point[1], Ring(bnd), 1, << point[1], point[2] >>, -1)

getBoundaryApproximateSize(boundaryGeoJson) ==
  IF \/ boundaryGeoJson.type # "Feature"
     \/ ~HasGeometry(boundaryGeoJson)
     \/ boundaryGeoJson.geometry.type # "Polygon"
     \/ Len(boundaryGeoJson.geometry.coordinates) = 0
  THEN [width |-> DefaultBoundarySize, height |-> DefaultBoundarySize]
  ELSE LET coords == Ring(boundaryGeoJson)
       IN  IF Len(coords) < 3
           THEN [width |-> DefaultBoundarySize, height |-> DefaultBoundarySize]
           ELSE LET b == BBox(coords)
                    width == b.maxLng - b.minLng
                    height == b.maxLat - b.minLat
                IN  [width |-> IF width > 0 THEN width ELSE MinBoundarySize,
                     height |-> IF height > 0 THEN height ELSE MinBoundarySize]

(***************************************************************************)
(* DEMUtils.                                                               *)
(***************************************************************************)
\* the elevation of a sample computed with a zero longitude range (0 / 0)
NaN == -1

\* The terrain inputs the model draws a surface from.  In generateDEM the
\* terms 3 sin(50 lat) + 2 cos(50 lng) + (Math.random() - 0.5) * 2 lie in
\* [-6, 6) metres; Relief gives their sum in decimetres for grid cell (i, j):
\* surface 0 is rough, surface 1 offsets the eastward gradient (a plateau),
\* any other surface is even and leaves the eastward gradient alone.
Surfaces == { 0, 1 }

Relief(surface, i, j, points) ==
  IF surface = 0 THEN (((i * 17 + j * 29) * 13) % 120) - 60
  ELSE IF surface = 1 THEN 40 - RoundDiv(80 * j, points)
  ELSE 0

\* generateDEM(lat, lng, radius, boundary) on the surface drawn
generateDEM(lat, lng, radius, bnd, surface) ==
  IF HasGeometry(bnd)
  THEN LET b == BBox(Ring(bnd))
           latRange == b.maxLat - b.minLat
           lngRange == b.maxLng - b.minLng
           points == Max(DemPoints, latRange \div 500)
           n == points + 1
           sample(i, j) ==
             LET pointLat == b.minLat + RoundDiv(i * latRange, points)
                 pointLng == b.minLng + RoundDiv(j * lngRange, points)
             IN  [lat |-> pointLat,
                  lng |-> pointLng,
                  elevation |->
                    IF lngRange = 0 THEN NaN
                    ELSE Max(MinElevation,
                             50 + Relief(surface, i, j, points)
                                + RoundDiv(80 * (pointLng - b.minLng), lngRange))]
       IN  [ k \in 1..(n * n) |-> sample((k - 1) \div n, (k - 1) % n) ]
  ELSE LET points == DemPoints
           n == 2 * points + 1
           sample(i, j) ==
             [lat |-> lat + RoundDiv(i * radius, points),
              lng |-> lng + RoundDiv(j * radius, points),
              \* 10 + i * 0.3 + sin(50 lat) * 2 + Math.random() * 0.5
              elevation |-> 100 + 3 * i
                            + (((Relief(surface, i + points, j + points, n) + 60) * 45) \div 120) - 20]
       IN  [ k \in 1..(n * n) |-> sample(((k - 1) \div n) - points, ((k - 1) % n) - points) ]

\* Math.atan2(dy, dx) * 180 / Math.PI, plus 360 when negative, as toFixed(1)
\* prints it: to the nearest 5 degrees from 0 to 355, except that an angle
\* just below 360 stays in the last sector, and is 360 when it is 359.95
\* or more (tan(0.05 degrees) = 0.00087), which toFixed(1) prints as 360.0
Atan2Deg(dy, dx) ==
  LET dot(k) == dx * CosTable[k + 1] + dy * CosTable[((k + 54) % 72) + 1]
      best == CHOOSE k \in 0..71 :
                /\ \A m \in 0..71 : dot(k) >= dot(m)
                /\ \A m \in 0..(k - 1) : dot(k) > dot(m)
  IN  IF dy < 0 /\ dx > 0 /\ best = 0
      THEN IF (-dy) * 100000 < 87 * dx THEN 360 ELSE 355
      ELSE 5 * best

\* [...demData].sort((a, b) => a.lat - b.lat || a.lng - b.lng)
SortByLatLng(dem) ==
  Values(SortByKey([ i \in DOMAIN dem |-> << dem[i].lat, dem[i].lng, dem[i] >> ]))

\* an analysis that keeps every sample, with slope and aspect 0
TopographyOfAll(dem) ==
  [ i \in DOMAIN dem |->
      [lat |-> dem[i].lat, lng |-> dem[i].lng, elevation |-> dem[i].elevation,
       slope |-> 0, aspect |-> 0] ]

\* slope is in tenths of a percent, aspect in degrees
calculateTopography(dem) ==
  LET sortedData == SortByLatLng(dem)
      N == Len(sortedData)
      neighborIdx(i) ==
        SelectSeq([ k \in 1..N |-> k ],
                  LAMBDA k : /\ k # i
                             /\ Abs(sortedData[k].lat - sortedData[i].lat) < NeighborWindow
                             /\ Abs(sortedData[k].lng - sortedData[i].lng) < NeighborWindow)
      topo(i) ==
        LET point == sortedData[i]
            nb == neighborIdx(i)
            neighbors == [ k \in DOMAIN nb |-> sortedData[nb[k]] ]
            sum == SumSeq([ k \in DOMAIN neighbors |-> neighbors[k].elevation ])
            slope == RoundDiv(Abs(point.elevation * Len(neighbors) - sum) * 100, Len(neighbors))
            east == SelectSeq(neighbors, LAMBDA p : p.lng > point.lng /\ Abs(p.lat - point.lat) < 1000)
            north == SelectSeq(neighbors, LAMBDA p : p.lat > point.lat /\ Abs(p.lng - point.lng) < 1000)
            aspect == IF east # << >> /\ north # << >>
                      THEN Atan2Deg(north[1].elevation - point.elevation,
                                    east[1].elevation - point.elevation)
                      ELSE 0
        IN  IF Len(nb) >= 3
            THEN << [lat |-> point.lat, lng |-> point.lng, elevation |-> point.elevation,
                     slope |-> slope, aspect |-> aspect] >>
            ELSE << >>
      RECURSIVE collect(_)
      collect(i) == IF i > N THEN << >> ELSE topo(i) \o collect(i + 1)
  IN  collect(1)

\* [...topography].sort((a, b) => b.elevation - a.elevation).slice(0, count)
findHighPoints(topo, count) ==
  Take(Values(SortByKey([ i \in DOMAIN topo |->
                          << -topo[i].elevation, 0, topo[i] >> ])), count)

\* [...topography].sort((a, b) => a.elevation - b.elevation).slice(0, count)
findLowPoints(topo, count) ==
  Take(Values(SortByKey([ i \in DOMAIN topo |->
                          << topo[i].elevation, 0, topo[i] >> ])), count)

Key(p) == << p.lat, p.lng >>

RECURSIVE SteepestOf(_, _, _)
\* neighbors.reduce(...): the first neighbour with the largest drop
SteepestOf(neighbors, k, steepest) ==
  IF k > Len(neighbors) THEN steepest
  ELSE SteepestOf(neighbors, k + 1,
                  IF neighbors[k].elevation < steepest.elevation THEN neighbors[k] ELSE steepest)

RECURSIVE FlowWalk(_, _, _, _)
\* the downhill walk: <<path, processedPoints>> after at most 20 steps
FlowWalk(topo, path, processedPoints, step) ==
  LET currentPoint == path[Len(path)]
      neighbors == SelectSeq(topo,
                     LAMBDA p : /\ Key(p) \notin processedPoints
                                /\ Abs(p.lat - currentPoint.lat) < 2000
                                /\ Abs(p.lng - currentPoint.lng) < 2000
                                /\ p.elevation < currentPoint.elevation)
  IN  IF step >= 20 \/ neighbors = << >> THEN << path, processedPoints >>
      ELSE LET nextPoint == SteepestOf(neighbors, 1, neighbors[1])
           IN  FlowWalk(topo, Append(path, nextPoint),
                        processedPoints \cup { Key(nextPoint) }, step + 1)

\* highPoints.forEach(...) with a visited set kept per start point
RECURSIVE WalksFromFreshVisited(_, _, _, _)
WalksFromFreshVisited(topo, highPoints, k, processedPoints) ==
  IF k > Len(highPoints) THEN << >>
  ELSE LET startPoint == highPoints[k]
           w == FlowWalk(topo, << startPoint >>, { Key(startPoint) }, 0)
       IN  << w[1] >> \o WalksFromFreshVisited(topo, highPoints, k + 1, processedPoints)

RECURSIVE WalksFrom(_, _, _, _)
\* highPoints.forEach(...) from start point k on: the path each callback
\* that did not return at once has built when it reaches line 717
WalksFrom(topo, highPoints, k, processedPoints) ==
  IF k > Len(highPoints) THEN << >>
  ELSE LET startPoint == highPoints[k]
       IN  IF Key(startPoint) \in processedPoints
           THEN WalksFrom(topo, highPoints, k + 1, processedPoints)
           ELSE LET w == FlowWalk(topo, << startPoint >>,
                                  processedPoints \cup { Key(startPoint) }, 0)
                IN  << w[1] >> \o WalksFrom(topo, highPoints, k + 1, w[2])

\* a flow computation that emits every path it built
FlowFromKeepAll(topo, highPoints, k, processedPoints) ==
  WalksFrom(topo, highPoints, k, processedPoints)

\* the paths pushed to flowPaths: if (path.length > 3) flowPaths.push(path)
FlowFrom(topo, highPoints, k, processedPoints) ==
  SelectSeq(WalksFrom(topo, highPoints, k, processedPoints), LAMBDA path : Len(path) > 3)

calculateWaterFlow(topo) ==
  FlowFrom(topo, findHighPoints(topo, 10), 1, {})

\* a contour extraction that keeps a level with 10 samples
RECURSIVE ContoursFromTenOrMore(_, _, _, _)
ContoursFromTenOrMore(dem, level, maxElevation, interval) ==
  IF level > maxElevation THEN << >>
  ELSE LET contourPoints == SelectSeq(dem, LAMBDA p : Abs(p.elevation - level) < 5)
       IN  (IF Len(contourPoints) >= ContourMinPoints
            THEN << [level |-> level, points |-> contourPoints] >>
            ELSE << >>)
           \o ContoursFromTenOrMore(dem, level + 10 * interval, maxElevation, interval)

RECURSIVE ContoursFrom(_, _, _, _)
ContoursFrom(dem, level, maxElevation, interval) ==
  IF level > maxElevation THEN << >>
  ELSE LET contourPoints == SelectSeq(dem, LAMBDA p : Abs(p.elevation - level) < 5)
       IN  (IF Len(contourPoints) > ContourMinPoints
            THEN << [level |-> level, points |-> contourPoints] >>
            ELSE << >>)
           \o ContoursFrom(dem, level + 10 * interval, maxElevation, interval)

\* generateContours(demData, interval); interval in metres, levels in decimetres
generateContours(dem, interval) ==
  IF dem = << >> THEN << >>
  ELSE LET minElevation == MinOf({ dem[i].elevation : i \in DOMAIN dem })
           maxElevation == MaxOf({ dem[i].elevation : i \in DOMAIN dem })
       IN  ContoursFrom(dem, 10 * CeilDiv(minElevation, 10), maxElevation, interval)

(***************************************************************************)
(* The element catalog and the shapes of placed elements.  An element is a *)
(* record with type and id and one of position (point), polygon or points  *)
(* (line); the display name, a function of the type, is left out.          *)
(***************************************************************************)
ELEMENT_TYPES ==
  [HOUSE |-> "point", WATER_TANK |-> "point", COMPOST |-> "point",
   CHICKEN_COOP |-> "point", BEEHIVE |-> "point", WINDBREAK |-> "line",
   SHED |-> "point", POND |-> "polygon", HERB_SPIRAL |-> "point",
   MANDALA_GARDEN |-> "point", SWALE |-> "line", POND_AREA |-> "polygon",
   VEGETABLE_GARDEN |-> "polygon", FRUIT_ORCHARD |-> "polygon",
   GRAIN_FIELD |-> "polygon"]

\* the 36 vertices at 10-degree steps around (lat, lng), closed by the first
CirclePolygon(lat, lng, radius) ==
  [ k \in 1..37 |->
      << lat + MulCos(radius, ((k - 1) % 36) * 10),
         lng + MulSin(radius, ((k - 1) % 36) * 10) >> ]

HasType(els, type) == \E i \in DOMAIN els : els[i].type = type

PointElement(type, position, id) == [type |-> type, position |-> position, id |-> id]
PolygonElement(type, polygon, id) == [type |-> type, polygon |-> polygon, id |-> id]
LineElement(type, points, id) == [type |-> type, points |-> points, id |-> id]

(***************************************************************************)
(* The placement synthesizer: the body of the setTimeout callback of       *)
(* autoDesignLayout.  c is the closure the callback was created in (the    *)
(* elements, boundary, marker, topography and demData of the render in     *)
(* which the button was clicked), now is Date.now(), and rnd holds what    *)
(* the random sampling returns: rnd.house, rnd.wind, rnd.zones[1..3] are   *)
(* results of generateRandomPointInBoundary, rnd.ids[1..3] are the values  *)
(* of Math.random() * 1000.                                                *)
(***************************************************************************)
BoundaryDiagonal(bnd) ==
  LET boundarySize == getBoundaryApproximateSize(bnd)
  IN  Sqrt(boundarySize.width * boundarySize.width + boundarySize.height * boundarySize.height)

\* boundaryDiagonal * 0.1
BaseElementSize(bnd) == RoundDiv(BoundaryDiagonal(bnd), 10)

zoneAreas(bnd) ==
  << [type |-> "VEGETABLE_GARDEN", size |-> BaseElementSize(bnd)],
     [type |-> "FRUIT_ORCHARD", size |-> RoundDiv(BaseElementSize(bnd) * 12, 10)],
     [type |-> "GRAIN_FIELD", size |-> RoundDiv(BaseElementSize(bnd) * 15, 10)] >>

\* HouseStep without the test that no house is present
HouseStepUnguarded(c, now, rnd) == << PointElement("HOUSE", rnd.house, now) >>

HouseStep(c, now, rnd) ==
  IF ~HasType(c.elements, "HOUSE")
  THEN << PointElement("HOUSE", rnd.house, now) >>
  ELSE << >>

\* elements.find(e => e.type === 'HOUSE')?.position || marker
HousePos(c) ==
  IF HasType(c.elements, "HOUSE")
  THEN c.elements[MinOf({ i \in DOMAIN c.elements : c.elements[i].type = "HOUSE" })].position
  ELSE c.marker

RECURSIVE ReduceElevation(_, _, _, _)
\* points.reduce((best, p) => p beats best ? p : best, points[0]); sign is 1
\* for the highest and -1 for the lowest
ReduceElevation(points, k, best, sign) ==
  IF k > Len(points) THEN best
  ELSE ReduceElevation(points, k + 1,
         IF sign * points[k].elevation > sign * best.elevation THEN points[k] ELSE best,
         sign)

WaterTankStep(c, now) ==
  LET highPoints == findHighPoints(c.topography, HighLowCount)
      boundaryHighPoints == filterPointsInBoundary(highPoints, c.boundary)
  IN  IF Len(boundaryHighPoints) > 0 /\ ~HasType(c.elements, "WATER_TANK")
      THEN LET highestPoint == ReduceElevation(boundaryHighPoints, 1, boundaryHighPoints[1], 1)
           IN  << PointElement("WATER_TANK", << highestPoint.lat, highestPoint.lng >>, now + 1) >>
      ELSE << >>

PondStep(c, now) ==
  LET lowPoints == findLowPoints(c.topography, HighLowCount)
      boundaryLowPoints == filterPointsInBoundary(lowPoints, c.boundary)
  IN  IF Len(boundaryLowPoints) > 0 /\ ~HasType(c.elements, "POND_AREA")
      THEN LET lowestPoint == ReduceElevation(boundaryLowPoints, 1, boundaryLowPoints[1], -1)
               pondRadius == RoundDiv(BaseElementSize(c.boundary) * 8, 10)
           IN  << PolygonElement("POND_AREA",
                                 CirclePolygon(lowestPoint.lat, lowestPoint.lng, pondRadius),
                                 now + 2) >>
      ELSE << >>

\* compost, chicken coop, beehive and shed: a fixed offset from housePos
OffsetStep(c, now, type, offLat, offLng, idOffset) ==
  LET housePos == HousePos(c)
      pos == << housePos[1] + offLat, housePos[2] + offLng >>
  IN  IF ~HasType(c.elements, type) /\ isPointInBoundary(pos, c.boundary)
      THEN << PointElement(type, pos, now + idOffset) >>
      ELSE << >>

RECURSIVE EveryThird(_, _)
\* contour.points.filter((_, index) => index % 3 === 0), from position k on
EveryThird(points, k) ==
  IF k > Len(points) THEN << >>
  ELSE << points[k] >> \o EveryThird(points, k + 3)

RECURSIVE SwaleLines(_, _, _, _, _)
\* contours.forEach(...): the swale lines of contours k.. given those found
SwaleLines(contours, k, bnd, now, found) ==
  IF k > Len(contours) THEN found
  ELSE LET contour == contours[k]
           simplifiedPoints == EveryThird(contour.points, 1)
           validPoints == SelectSeq(simplifiedPoints,
                            LAMBDA p : isPointInBoundary(<< p.lat, p.lng >>, bnd))
       IN  IF Len(contour.points) > 5 /\ Len(simplifiedPoints) > 2 /\ Len(validPoints) > 2
           THEN SwaleLines(contours, k + 1, bnd, now,
                  Append(found,
                    LineElement("SWALE",
                                [ i \in DOMAIN validPoints |->
                                    << validPoints[i].lat, validPoints[i].lng >> ],
                                now + 7 + Len(found))))
           ELSE SwaleLines(contours, k + 1, bnd, now, found)

\* a swale step that adds every swale line it found
SwaleStepUncapped(c, now) ==
  IF ~HasType(c.elements, "SWALE")
  THEN SwaleLines(generateContours(c.demData, 1), 1, c.boundary, now, << >>)
  ELSE << >>

SwaleStep(c, now) ==
  IF ~HasType(c.elements, "SWALE")
  THEN Take(SwaleLines(generateContours(c.demData, 1), 1, c.boundary, now, << >>), SwaleCap)
  ELSE << >>

WindbreakStep(c, now, rnd) ==
  IF ~HasType(c.elements, "WINDBREAK")
  THEN LET windbreakLength == RoundDiv(BoundaryDiagonal(c.boundary) * 3, 10)
           startPoint == rnd.wind
           endPoint == << startPoint[1] + MulCos(windbreakLength, c.windDirection + 90),
                          startPoint[2] + MulSin(windbreakLength, c.windDirection + 90) >>
           adjustedEndPoint ==
             IF ~isPointInBoundary(endPoint, c.boundary)
             THEN findClosestPointOnBoundary(endPoint, c.boundary)
             ELSE endPoint
       IN  IF /\ isPointInBoundary(startPoint, c.boundary)
              /\ isPointInBoundary(adjustedEndPoint, c.boundary)
           THEN << LineElement("WINDBREAK", << startPoint, adjustedEndPoint >>, now + 8) >>
           ELSE << >>
  ELSE << >>

ZoneStep(c, now, rnd, k) ==
  LET area == zoneAreas(c.boundary)[k]
  IN  IF ~HasType(c.elements, area.type)
      THEN << PolygonElement(area.type,
                             CirclePolygon(rnd.zones[k][1], rnd.zones[k][2], area.size),
                             now + 20 + rnd.ids[k]) >>
      ELSE << >>

\* the steps of the callback that draw nothing at random, in order: tank,
\* pond, compost, chicken coop, beehive, shed, swales
FixedSteps(c, now) ==
  [tankPond |-> WaterTankStep(c, now) \o PondStep(c, now),
   offsets |-> OffsetStep(c, now, "COMPOST", CompostOffsetLat, CompostOffsetLng, 3)
               \o OffsetStep(c, now, "CHICKEN_COOP", CoopOffsetLat, CoopOffsetLng, 4)
               \o OffsetStep(c, now, "BEEHIVE", BeeOffsetLat, BeeOffsetLng, 5)
               \o OffsetStep(c, now, "SHED", ShedOffsetLat, ShedOffsetLng, 6),
   swales |-> SwaleStep(c, now)]

\* a callback that stops at the first offset step it skips: nothing after
\* the compost, coop, beehive and shed steps is pushed unless all four were
PushedUntilSkip(c, now, rnd, fixed) ==
  HouseStep(c, now, rnd)
  \o fixed.tankPond
  \o fixed.offsets
  \o (IF Len(fixed.offsets) = 4
      THEN fixed.swales \o WindbreakStep(c, now, rnd)
           \o ZoneStep(c, now, rnd, 1) \o ZoneStep(c, now, rnd, 2) \o ZoneStep(c, now, rnd, 3)
      ELSE << >>)

\* what one run of the callback pushes onto newElements, in order, given
\* the value fixed of FixedSteps(c, now)
Pushed(c, now, rnd, fixed) ==
  HouseStep(c, now, rnd)
  \o fixed.tankPond
  \o fixed.offsets
  \o fixed.swales
  \o WindbreakStep(c, now, rnd)
  \o ZoneStep(c, now, rnd, 1) \o ZoneStep(c, now, rnd, 2) \o ZoneStep(c, now, rnd, 3)

Synthesized(c, now, rnd) == Pushed(c, now, rnd, FixedSteps(c, now))

\* const newElements = [...elements]; ...; the list handed to setElements
NewElements(c, now, rnd) == c.elements \o Synthesized(c, now, rnd)

(***************************************************************************)
(* The inputs the model draws user events from.                            *)
(***************************************************************************)
\* 10 degrees north, 10 degrees east
Origin == 10000000

\* a rectangle 0.0015 degrees high and 0.002 degrees wide, as a closed ring
RectRing ==
  << << Origin, Origin >>, << Origin + 2000, Origin >>,
     << Origin + 2000, Origin + 1500 >>, << Origin, Origin + 1500 >>,
     << Origin, Origin >> >>

\* an L-shaped (concave) plot in the same bounding box: its middle is outside
LRing ==
  << << Origin, Origin >>, << Origin + 2000, Origin >>,
     << Origin + 2000, Origin + 500 >>, << Origin + 500, Origin + 500 >>,
     << Origin + 500, Origin + 1500 >>, << Origin, Origin + 1500 >>,
     << Origin, Origin >> >>

\* the polygons the user may draw with the drawing tool
DrawnBoundaries == { Feature(RectRing), Feature(LRing) }

\* where the user may click the map: inside both plots, and north of them
ClickPoints ==
  { [lat |-> Origin + 250, lng |-> Origin + 1750],
    [lat |-> Origin + 1750, lng |-> Origin + 250] }

\* where the user may drop a dragged marker
DropPoints == ClickPoints

\* the buttons of the placement tool the user may press
SelectableKinds == { "HOUSE", "SWALE" }

\* the values Math.random() * 1000 may take in a zone's id
IdRandoms == { 250 }

(***************************************************************************)
(* The environment record and the climate lookup.  Rainfall is in mm, sun  *)
(* hours are in thousandths of an hour, slope is in percent.               *)
(***************************************************************************)
\* the demo layers: rings of <<lng, lat>>
soilPolygons ==
  << [soil |-> "lateritic-loam",
      ring |-> << << 75900000, 11050000 >>, << 76400000, 11050000 >>, << 76400000, 9500000 >>,
                  << 75900000, 9500000 >>, << 75900000, 11050000 >> >>],
     [soil |-> "alluvial",
      ring |-> << << 75900000, 9500000 >>, << 76400000, 9500000 >>, << 76400000, 8250000 >>,
                  << 75900000, 8250000 >>, << 75900000, 9500000 >> >>] >>
watershedPolygons ==
  << [id |-> "ws-1",
      ring |-> << << 75700000, 11000000 >>, << 76700000, 11000000 >>, << 76700000, 9000000 >>,
                  << 75700000, 9000000 >>, << 75700000, 11000000 >> >>] >>

RECURSIVE FirstContaining(_, _, _)
\* for (const f of layers) if (pointInPolygon(pt, vs)) return ...: the index
\* of the first layer from k on that contains pt, or 0
FirstContaining(layers, pt, k) ==
  IF k > Len(layers) THEN 0
  ELSE IF pointInPolygon(pt, layers[k].ring) THEN k
  ELSE FirstContaining(layers, pt, k + 1)

sampleSoilAt(lng, lat) ==
  LET k == FirstContaining(soilPolygons, << lng, lat >>, 1)
  IN  IF k = 0 THEN "mixed-loam" ELSE soilPolygons[k].soil

sampleWatershedAt(lng, lat) ==
  LET k == FirstContaining(watershedPolygons, << lng, lat >>, 1)
  IN  IF k = 0 THEN Null ELSE [id |-> watershedPolygons[k].id]

fallbackRain(lat, lng) ==
  IF lat >= 9200000 /\ lng >= 75500000 /\ lng <= 76900000
  THEN 2500 + RoundDiv(11500000 - lat, 10000)
  ELSE 1500 + RoundDiv(10500000 - lat, 20000)

fallbackSunHours(lat) == 6500 + (10000000 - Abs(lat - 10500000)) \div 10000

fallbackSlope(lat) ==
  IF lat > 10500000
  THEN 8 + RoundDiv(Abs(lat - 11000000) * 2, 1000000)
  ELSE 3 + RoundDiv(Abs(lat - 9500000) * 3, 2000000)

\* useState({...}) of env; monthlyRainfall and source are not set yet
InitialEnv ==
  [lat |-> InitLat, lng |-> InitLng,
   soil |-> sampleSoilAt(InitLng, InitLat),
   watershed |-> sampleWatershedAt(InitLng, InitLat),
   slopePercent |-> fallbackSlope(InitLat),
   avgRainfallMm |-> 0, sunHours |-> 0, climateSource |-> "loading...",
   source |-> Null, monthlyRainfall |-> Null]

DaysInMonth == << 31, 28, 31, 30, 31, 30, 31, 31, 30, 31, 30, 31 >>

\* the climatologies the service may answer with: precipitation in mm/day,
\* the same every month, and solar radiation in Wh/m2/day
NasaPrecipitation == { 8 }
NasaSolar == { 2000, 5000 }

\* the values getClimateFromNASA(lat, lng) may resolve to: an answer of the
\* service, or the fallback when the request fails
getClimateFromNASA(lat, lng) ==
  { [source |-> "NASA POWER",
     avgRainfallMm |-> SumSeq([ i \in 1..12 |-> p * DaysInMonth[i] ]),
     sunHours |-> Max(3000, Min(10000, sol)),
     monthlyRainfall |-> [ i \in 1..12 |-> p * DaysInMonth[i] ]] :
      p \in NasaPrecipitation, sol \in NasaSolar }
  \cup { [source |-> "fallback",
          avgRainfallMm |-> fallbackRain(lat, lng),
          sunHours |-> fallbackSunHours(lat),
          monthlyRainfall |-> [ i \in 1..12 |-> RoundDiv(fallbackRain(lat, lng), 12) ]] }

\* ({ ...prev, ...climate, climateSource: climate.source })
MergeClimate(prev, answer) ==
  [prev EXCEPT !.source = answer.source, !.avgRainfallMm = answer.avgRainfallMm,
               !.sunHours = answer.sunHours, !.monthlyRainfall = answer.monthlyRainfall,
               !.climateSource = answer.source]

(***************************************************************************)
(* The state of the App component.                                         *)
(***************************************************************************)
VARIABLES
  marker,               \* [lat, lng] of the farm marker (the anchor)
  boundary,             \* the boundary Feature, or Null
  elements,             \* the placed elements, in order
  selectedElementType,  \* the kind selected for placement, or "null"
  isDesigning,          \* the designing flag
  demData,              \* the derived-terrain group
  topography,
  waterFlow,
  timers,               \* the pending setTimeout callbacks: their closures
  clock,                \* Date.now()
  lastRun,              \* history: the kinds the last completed callback found
  placements,           \* number of elements placed by clicks so far
  drags,                \* number of drags so far
  requests,             \* number of synthesis requests so far
  boundaryEvents,       \* number of boundary events so far
  env,                  \* the environment record
  lookups,              \* the climate lookups in flight: place asked for, cancelled flag
  cleared,              \* history: the ids of the elements Clear All Elements has removed
  call,                 \* the last library call made on its own: op, input, output
  sampling              \* one run of generateRandomPointInBoundary, step by step

terrain == << demData, topography, waterFlow >>
counters == << placements, drags, requests, boundaryEvents >>
\* the environment record and its lookups
climate == << env, lookups >>
\* the variables the App's handlers do not touch
pure == << call, sampling >>
\* the user events counted so far
Events == placements + drags + requests + boundaryEvents
vars == << marker, boundary, elements, selectedElementType, isDesigning,
           demData, topography, waterFlow, timers, clock, lastRun,
           placements, drags, requests, boundaryEvents, env, lookups, cleared,
           call, sampling >>

\* what the effect of lines 2615-2624 computes for marker m and boundary b
\* when the DEM's random relief is the given surface
Terrain(m, b, surface) ==
  LET dem == generateDEM(m[1], m[2], 50000, b, surface)
      topo == calculateTopography(dem)
      flow == calculateWaterFlow(topo)
  IN  [demData |-> dem, topography |-> topo, waterFlow |-> flow]

\* the values marker can take: its initial value, a click, a sampled house
MarkerPositions ==
  { << InitLat, InitLng >> }
  \cup { << p.lat, p.lng >> : p \in ClickPoints }
  \cup UNION { generateRandomPointInBoundary(b) : b \in DrawnBoundaries }

\* the key of Terrain(m, b, surface) in the table below: with a boundary
\* generateDEM does not read the marker
TerrainKey(m, b, surface) ==
  IF HasGeometry(b) THEN << << 0, 0 >>, b, surface >> ELSE << m, b, surface >>

\* Terrain, tabulated over the values its arguments take
TerrainOf ==
  [ k \in { TerrainKey(m, b, surface) : m \in MarkerPositions,
                                        b \in DrawnBoundaries \cup { Null },
                                        surface \in Surfaces } |->
      Terrain(k[1], k[2], k[3]) ]

\* an effect that regenerates the DEM alone and keeps the analyses of the old one
RegenerateDemOnly(m, b, surface) ==
  /\ demData' = TerrainOf[TerrainKey(m, b, surface)].demData
  /\ UNCHANGED << topography, waterFlow >>

\* The effect of lines 2615-2624, which React runs after every render that
\* changed marker or boundary and before the next event is handled; its
\* three setState calls are batched into one render.
RegenerateTerrain(m, b, surface) ==
  \E t \in { TerrainOf[TerrainKey(m, b, surface)] } :
    /\ demData' = t.demData
    /\ topography' = t.topography
    /\ waterFlow' = t.waterFlow

\* the closure of the climate effect run for (lat, lng), its answer pending
Lookup(lat, lng) == [lat |-> lat, lng |-> lng, cancelled |-> FALSE]

\* no library call observed, no sampling run started
NoCall == [op |-> "none", input |-> Null, output |-> Null]
NoSampling == [pc |-> "idle"]

Init ==
  /\ call = NoCall
  /\ sampling = NoSampling
  /\ marker = << InitLat, InitLng >>
  /\ boundary = Null
  /\ elements = << >>
  /\ selectedElementType = "null"
  /\ isDesigning = FALSE
  /\ \E surface \in Surfaces :
       \E t \in { TerrainOf[TerrainKey(marker, Null, surface)] } :
         /\ demData = t.demData
         /\ topography = t.topography
         /\ waterFlow = t.waterFlow
  /\ timers = << >>
  /\ clock = 0
  /\ lastRun = [ran |-> FALSE, present |-> {}]
  /\ placements = 0
  /\ drags = 0
  /\ requests = 0
  /\ boundaryEvents = 0
  /\ env = InitialEnv
  /\ lookups = { Lookup(InitLat, InitLng) }
  /\ cleared = {}

\* setBoundary(b) followed by the terrain effect
SetBoundary(b) ==
  /\ boundaryEvents < MaxBoundaryEvents /\ Events < MaxEvents
  /\ boundaryEvents' = boundaryEvents + 1
  /\ boundary' = b
  /\ \E surface \in Surfaces : RegenerateTerrain(marker, b, surface)
  /\ UNCHANGED << pure, cleared, climate, marker, elements, selectedElementType, isDesigning, timers,
                  clock, lastRun, placements, drags, requests >>

\* a polygon was drawn
handleCreate == \E b \in DrawnBoundaries \ { boundary } : SetBoundary(b)

\* the drawn polygon was reshaped
handleEdit ==
  /\ boundary # Null
  /\ \E b \in DrawnBoundaries \ { boundary } : SetBoundary(b)

\* the drawn polygon was deleted
handleDelete ==
  /\ boundary # Null
  /\ SetBoundary(Null)

\* a kind button of the placement tool
SelectElementType ==
  \E kind \in SelectableKinds :
    /\ selectedElementType # kind
    /\ selectedElementType' = kind
    /\ UNCHANGED << pure, cleared, climate, marker, boundary, elements, isDesigning, terrain, timers,
                    clock, lastRun, counters >>

\* the boundary test of onMapClick, lines 2644-2661: the ring is mapped to
\* [lat, lng] pairs and that array is what isPointInBoundary is given
ClickInsideBoundary(latlng, b) ==
  IF b = Null THEN TRUE
  ELSE IF /\ b.type = "Feature"
          /\ b.geometry.type = "Polygon"
          /\ Len(b.geometry.coordinates) > 0
       THEN LET latLngCoords == [ i \in DOMAIN Ring(b) |-> << Ring(b)[i][2], Ring(b)[i][1] >> ]
                boundaryForUtils == [type |-> "Array", items |-> latLngCoords]
            IN  isPointInBoundary(<< latlng.lat, latlng.lng >>, boundaryForUtils)
       ELSE TRUE

\* the element onMapClick creates for the selected kind at the click
NewElement(kind, latlng, id) ==
  IF ELEMENT_TYPES[kind] = "point"
  THEN PointElement(kind, << latlng.lat, latlng.lng >>, id)
  ELSE IF ELEMENT_TYPES[kind] = "polygon"
  THEN PolygonElement(kind, CirclePolygon(latlng.lat, latlng.lng, ManualPolygonRadius), id)
  ELSE LineElement(kind,
                   << << latlng.lat - ManualLineLength \div 2, latlng.lng - ManualLineLength \div 2 >>,
                      << latlng.lat + ManualLineLength \div 2, latlng.lng + ManualLineLength \div 2 >> >>,
                   id)

\* names every object has: ELEMENT_TYPES[name] is a value without geometry
InheritedKeys == { "constructor", "toString" }

\* ELEMENT_TYPES[kind]: the entry of the catalog, an inherited value, or
\* undefined (Null)
CatalogEntry(kind) ==
  IF kind \in DOMAIN ELEMENT_TYPES THEN [geometry |-> ELEMENT_TYPES[kind]]
  ELSE IF kind \in InheritedKeys THEN [geometry |-> "undefined"]
  ELSE Null

\* the state a render's onMapClick reads and the state it sets
Render ==
  [selectedElementType |-> selectedElementType, boundary |-> boundary,
   elements |-> elements, marker |-> marker, env |-> env]

\* a placement branch that appends newElement without testing it
onMapClickPushingUndefined(s, latlng, now) ==
  LET elementType == CatalogEntry(s.selectedElementType)
  IN  IF s.selectedElementType = "null" \/ elementType = Null THEN s
      ELSE IF ~ClickInsideBoundary(latlng, s.boundary) THEN s
      ELSE IF elementType.geometry \notin { "point", "polygon", "line" }
      THEN [s EXCEPT !.elements = Append(@, Null)]
      ELSE [s EXCEPT !.elements = Append(@, NewElement(s.selectedElementType, latlng, now))]

\* onMapClick(latlng) at time now: the state after the handler
onMapClick(s, latlng, now) ==
  IF s.selectedElementType # "null"
  THEN LET elementType == CatalogEntry(s.selectedElementType)
       IN  IF elementType = Null THEN s
           ELSE IF ~ClickInsideBoundary(latlng, s.boundary) THEN s
           ELSE IF elementType.geometry \notin { "point", "polygon", "line" } THEN s
           ELSE [s EXCEPT !.elements =
                            Append(@, NewElement(s.selectedElementType, latlng, now))]
  ELSE [s EXCEPT !.marker = << latlng.lat, latlng.lng >>,
                 !.env = [@ EXCEPT !.lat = latlng.lat,
                                   !.lng = latlng.lng,
                                   !.soil = sampleSoilAt(latlng.lng, latlng.lat),
                                   !.watershed = sampleWatershedAt(latlng.lng, latlng.lat),
                                   !.slopePercent = fallbackSlope(latlng.lat)]]

\* the climate effect when the record goes from prev to next: on a change
\* of lat or lng the pending answers are cancelled and a lookup is started.
\* React runs the cleanup and the effect after the render that changed the
\* location and before the next event or answer is handled.
ClimateEffect(pending, prev, next) ==
  IF prev.lat = next.lat /\ prev.lng = next.lng THEN pending
  ELSE { [l EXCEPT !.cancelled = TRUE] : l \in pending } \cup { Lookup(next.lat, next.lng) }

\* onMapClick with an element kind selected
PlaceElement ==
  \E latlng \in ClickPoints :
    /\ selectedElementType # "null"
    /\ placements < MaxPlacements /\ Events < MaxEvents
    /\ placements' = placements + 1
    /\ clock' = clock + ClockStep
    /\ elements' = onMapClick(Render, latlng, clock).elements
    /\ UNCHANGED << pure, cleared, climate, marker, boundary, selectedElementType, isDesigning, terrain,
                    timers, lastRun, drags, requests, boundaryEvents >>

\* onMapClick with no kind selected: the marker and the environment record
\* move, the terrain and the climate lookup follow
MoveMarker ==
  \E latlng \in ClickPoints, surface \in Surfaces :
    /\ selectedElementType = "null"
    /\ Cardinality(lookups) < MaxLookups
    /\ marker # << latlng.lat, latlng.lng >> \/ << env.lat, env.lng >> # << latlng.lat, latlng.lng >>
    /\ \E s \in { onMapClick(Render, latlng, clock) } :
         /\ marker' = s.marker
         /\ env' = s.env
    /\ RegenerateTerrain(marker', boundary, surface)
    /\ lookups' = ClimateEffect(lookups, env, env')
    /\ UNCHANGED << pure, cleared, boundary, elements, selectedElementType, isDesigning, timers,
                    clock, lastRun, counters >>

\* prev.map(el => ...) of onElementDrag
DragResult(prev, id, newPosition, b) ==
  [ i \in DOMAIN prev |->
      IF prev[i].id = id /\ "position" \in DOMAIN prev[i]
      THEN IF b = Null \/ isPointInBoundary(<< newPosition.lng, newPosition.lat >>, b)
           THEN [prev[i] EXCEPT !.position = << newPosition.lat, newPosition.lng >>]
           ELSE prev[i]
      ELSE prev[i] ]

\* a marker of a point element was dragged and dropped; while a synthesis
\* is pending a drop is possible whatever the number of events so far
onElementDrag ==
  \E i \in DOMAIN elements, newPosition \in DropPoints :
    /\ drags < MaxDrags /\ (Events < MaxEvents \/ isDesigning)
    /\ drags' = drags + 1
    /\ "position" \in DOMAIN elements[i]
    /\ elements' = DragResult(elements, elements[i].id, newPosition, boundary)
    /\ UNCHANGED << pure, cleared, climate, marker, boundary, selectedElementType, isDesigning, terrain,
                    timers, clock, lastRun, placements, requests, boundaryEvents >>

\* the Clear All Elements button
onClearElements ==
  /\ elements # << >>
  /\ elements' = << >>
  /\ cleared' = cleared \cup { elements[k].id : k \in DOMAIN elements }
  /\ UNCHANGED << pure, climate, marker, boundary, selectedElementType, isDesigning, terrain,
                  timers, clock, lastRun, counters >>

\* the button enabled whenever a boundary exists, whatever the designing flag
AutoDesignEnabledIgnoringFlag == ~(boundary = Null)

\* whether the Auto Design Layout button is enabled (line 2169)
AutoDesignEnabled == ~(isDesigning \/ boundary = Null)

\* the closure of the autoDesignLayout callback of the current render
Closure ==
  [elements |-> elements, boundary |-> boundary, marker |-> marker,
   topography |-> topography, demData |-> demData, windDirection |-> WindDirection]

\* a click on the enabled button: autoDesignLayout up to setTimeout
autoDesignLayout ==
  /\ AutoDesignEnabled
  /\ requests < MaxRequests /\ Events < MaxEvents
  /\ requests' = requests + 1
  /\ IF boundary = Null
     THEN UNCHANGED << isDesigning, timers >>
     ELSE /\ isDesigning' = TRUE
          /\ timers' = Append(timers, Closure)
  /\ UNCHANGED << pure, cleared, climate, marker, boundary, elements, selectedElementType, terrain, clock,
                  lastRun, placements, drags, boundaryEvents >>

\* the centres the three zones may get: all alike, or the second apart
ZoneDraws(pts) ==
  { << p, p, p >> : p \in pts } \cup { << p, q, p >> : p \in pts, q \in pts }

\* the value of a draw the callback does not make
NoDraw == << 0, 0 >>

\* the random outcomes one run of the callback may see: a point is drawn
\* only inside the branch of a kind that is missing from c.elements
RandomOutcomes(c) ==
  LET pts == generateRandomPointInBoundary(c.boundary)
      drawn(type, p) == IF HasType(c.elements, type) THEN NoDraw ELSE p
  IN  [house : { drawn("HOUSE", p) : p \in pts },
       wind : { drawn("WINDBREAK", p) : p \in pts },
       zones : { << drawn("VEGETABLE_GARDEN", z[1]), drawn("FRUIT_ORCHARD", z[2]),
                    drawn("GRAIN_FIELD", z[3]) >> : z \in ZoneDraws(pts) },
       ids : [1..3 -> IdRandoms]]

\* a callback that an exception stops before setElements and setIsDesigning
SynthesisAborts ==
  /\ timers # << >>
  /\ timers' = Tail(timers)
  /\ clock' = clock + ClockStep
  /\ UNCHANGED << pure, cleared, climate, marker, boundary, elements, selectedElementType,
                  isDesigning, terrain, lastRun, counters >>

\* the setTimeout callback runs: lines 2746-2968, then the terrain effect
\* when setMarker moved the marker
SynthesisCompletes ==
  /\ timers # << >>
  /\ \E c \in { Head(timers) } :
       \E fixed \in { FixedSteps(c, clock) } :
         \E rnd \in RandomOutcomes(c) :
           /\ elements' = c.elements \o Pushed(c, clock, rnd, fixed)
           /\ isDesigning' = FALSE
           /\ timers' = Tail(timers)
           /\ lastRun' = [ran |-> TRUE,
                          present |-> { c.elements[i].type : i \in DOMAIN c.elements }]
           /\ IF ~HasType(c.elements, "HOUSE")
              THEN /\ marker' = rnd.house
                   /\ \E surface \in Surfaces : RegenerateTerrain(marker', boundary, surface)
              ELSE UNCHANGED << marker, terrain >>
  /\ clock' = clock + ClockStep
  /\ UNCHANGED << pure, cleared, climate, boundary, selectedElementType, counters >>

\* a lookup whose answer is merged whether or not its effect was cleaned up
ClimateResolvesUncancelled ==
  /\ lookups # {}
  /\ \E l \in lookups :
       \E answer \in getClimateFromNASA(l.lat, l.lng) :
         /\ lookups' = lookups \ { l }
         /\ env' = MergeClimate(env, answer)
  /\ UNCHANGED << pure, cleared, marker, boundary, elements, selectedElementType, isDesigning,
                  terrain, timers, clock, lastRun, counters >>

\* the awaited getClimateFromNASA of one run of the effect resolves:
\* lines 2587-2590
ClimateResolves ==
  /\ lookups # {}
  /\ \E l \in lookups :
       \E answer \in getClimateFromNASA(l.lat, l.lng) :
         /\ lookups' = lookups \ { l }
         /\ env' = IF ~l.cancelled THEN MergeClimate(env, answer) ELSE env
  /\ UNCHANGED << pure, cleared, marker, boundary, elements, selectedElementType, isDesigning,
                  terrain, timers, clock, lastRun, counters >>

Next ==
  \/ handleCreate
  \/ handleEdit
  \/ handleDelete
  \/ SelectElementType
  \/ PlaceElement
  \/ MoveMarker
  \/ onElementDrag
  \/ onClearElements
  \/ autoDesignLayout
  \/ SynthesisCompletes

Spec == Init /\ [][Next]_vars

\* what SynthesisCompletes does to the queue of timers; no other step of
\* Next shortens the queue, and one is possible whenever it is not empty
TimerFires == timers # << >> /\ timers' = Tail(timers)

\* the location and the boundary change while climate lookups are in flight
ClimateNext ==
  \/ MoveMarker
  \/ ClimateResolves
  \/ handleCreate
  \/ handleDelete

Climate == Init /\ [][ClimateNext]_vars

\* the timer of setTimeout fires: a pending callback is eventually run
LiveSpec == Spec /\ WF_timers(TimerFires)

(***************************************************************************)
(* The library functions called on their own: DEMUtils, BoundaryUtils and  *)
(* the synthesizer applied to inputs drawn from the sets below.  A call    *)
(* leaves the App's state alone and records its input and its output.      *)
(***************************************************************************)
\* the App's state
app == << marker, boundary, elements, selectedElementType, isDesigning,
          demData, topography, waterFlow, timers, clock, lastRun,
          placements, drags, requests, boundaryEvents, env, lookups, cleared >>

\* a plot 0.0025 degrees high: a strip along its west side 0.0005 degrees
\* wide, with a sliver along its north side reaching 0.002 degrees east
FlagRing ==
  << << Origin, Origin >>, << Origin + 500, Origin >>,
     << Origin + 500, Origin + 2400 >>, << Origin + 2000, Origin + 2500 >>,
     << Origin, Origin + 2500 >>, << Origin, Origin >> >>

\* the plots the whole pipeline is run on
SurveyedBoundaries == DrawnBoundaries \cup { Feature(FlagRing) }

\* the surfaces the whole pipeline is run on: those of Surfaces and an even one
SurveyedSurfaces == Surfaces \cup { 2 }

\* the closure of a callback created on an empty element list right after
\* the effect of lines 2615-2624 computed the terrain t for boundary b
FreshClosure(m, b, t) ==
  [elements |-> << >>, boundary |-> b, marker |-> m,
   topography |-> t.topography, demData |-> t.demData, windDirection |-> WindDirection]

\* generateDEM, calculateTopography and the synthesizer, end to end
RunPipeline ==
  /\ call = NoCall
  /\ \E b \in SurveyedBoundaries, surface \in SurveyedSurfaces :
    \E c \in { FreshClosure(marker, b, Terrain(marker, b, surface)) } :
      \E fixed \in { FixedSteps(c, clock) } :
        \E rnd \in RandomOutcomes(c) :
          /\ call' = [op |-> "pipeline",
                      input |-> [boundary |-> b, surface |-> surface, rnd |-> rnd],
                      output |-> [topography |-> c.topography,
                                  elements |-> c.elements \o Pushed(c, clock, rnd, fixed)]]
          /\ UNCHANGED << app, sampling >>

\* degenerate plots: all vertices on one parallel, all on one meridian
FlatRing ==
  << << Origin, Origin >>, << Origin + 2000, Origin >>, << Origin + 1000, Origin >>,
     << Origin, Origin >> >>
NarrowRing ==
  << << Origin, Origin >>, << Origin, Origin + 1500 >>, << Origin, Origin + 750 >>,
     << Origin, Origin >> >>

\* the boundaries terrain is generated for and points are sampled in
SampledBoundaries ==
  SurveyedBoundaries \cup { Feature(FlatRing), Feature(NarrowRing), Null }

\* a triangle given without the closing vertex
TriangleRing ==
  << << Origin, Origin >>, << Origin + 2000, Origin + 500 >>, << Origin + 500, Origin + 1500 >> >>

\* a ring without its last vertex: the closed rings above, left open
Open(ring) == SubSeq(ring, 1, Len(ring) - 1)

\* rings of at least 3 vertices, closed by a repeated first vertex or not
TestRings ==
  { RectRing, LRing, FlagRing, TriangleRing, Open(RectRing), Open(LRing), Open(FlagRing) }

\* what is no boundary: null, a Feature without geometry, rings of 2 and 1 vertices
InvalidBoundaries ==
  { Null, [type |-> "Feature"],
    Feature(<< << Origin, Origin >>, << Origin + 2000, Origin + 1500 >> >>),
    Feature(<< << Origin, Origin >> >>) }

\* the points <<lng, lat>> tested: a grid of 0.00025 degrees over the plots
\* and a margin around them
TestPoints ==
  { << Origin + 250 * i, Origin + 250 * j >> : i \in (-1)..9, j \in (-1)..11 }

\* isPointInBoundary(point, boundary) with the point given as an array
\* [lat, lng] or as an object {lat, lng}
CallIsPointInBoundary ==
  /\ call = NoCall
  /\ \E b \in { Feature(ring) : ring \in TestRings } \cup InvalidBoundaries,
     point \in TestPoints, shape \in { "array", "object" } :
    /\ call' = [op |-> "isPointInBoundary",
                input |-> [boundary |-> b, point |-> point, shape |-> shape],
                output |-> IF shape = "array"
                           THEN isPointInBoundary(<< point[2], point[1] >>, b)
                           ELSE isPointInBoundaryLatLng([lat |-> point[2], lng |-> point[1]], b)]
    /\ UNCHANGED << app, sampling >>

\* the lists given to filterPointsInBoundary: samples on a diagonal of the grid
TestLists ==
  { [ k \in 1..n |-> [lat |-> Origin + 250 * (k + d), lng |-> Origin + 250 * k] ] :
      n \in 0..3, d \in 0..1 }

\* filterPointsInBoundary(points, boundary)
CallFilterPointsInBoundary ==
  /\ call = NoCall
  /\ \E b \in { Feature(RectRing), Feature(LRing) } \cup InvalidBoundaries, points \in TestLists :
    /\ call' = [op |-> "filterPointsInBoundary",
                input |-> [boundary |-> b, points |-> points],
                output |-> filterPointsInBoundary(points, b)]
    /\ UNCHANGED << app, sampling >>

\* generateDEM(lat, lng, 0.05, boundary) at the marker, with and without a
\* boundary, plots without height or without width included
CallGenerateDEM ==
  /\ call = NoCall
  /\ \E b \in SampledBoundaries, surface \in SurveyedSurfaces :
       /\ call' = [op |-> "generateDEM",
                   input |-> [lat |-> marker[1], lng |-> marker[2], boundary |-> b,
                              surface |-> surface],
                   output |-> generateDEM(marker[1], marker[2], 50000, b, surface)]
       /\ UNCHANGED << app, sampling >>

\* the elevations, in decimetres, of the samples analysed on their own
SampleElevations == { 20, 21, 2021 }

\* four samples 0.0005 degrees apart: a point, its eastward and northward
\* neighbours and the opposite corner; and a sample 0.01 degrees away
Cluster(e) ==
  << [lat |-> Origin, lng |-> Origin, elevation |-> e[1]],
     [lat |-> Origin, lng |-> Origin + 500, elevation |-> e[2]],
     [lat |-> Origin + 500, lng |-> Origin, elevation |-> e[3]],
     [lat |-> Origin + 500, lng |-> Origin + 500, elevation |-> e[4]] >>
FarSample == [lat |-> Origin + 10000, lng |-> Origin, elevation |-> 50]

\* the sample sets analysed: three or four samples of the cluster, with or
\* without the far one
SampleSets ==
  { SubSeq(Cluster(e), 1, n) \o far :
      e \in [1..4 -> SampleElevations], n \in 3..4, far \in { << >>, << FarSample >> } }

\* calculateTopography(demData)
CallCalculateTopography ==
  /\ call = NoCall
  /\ \E dem \in SampleSets :
       /\ call' = [op |-> "calculateTopography", input |-> dem,
                   output |-> calculateTopography(dem)]
       /\ UNCHANGED << app, sampling >>

\* a sample of an analysed terrain, dlat and dlng micro-degrees from Origin
Station(dlat, dlng, elevation) ==
  [lat |-> Origin + dlat, lng |-> Origin + dlng, elevation |-> elevation,
   slope |-> 0, aspect |-> 0]

\* n samples 0.001 degrees apart on one parallel, each 0.1 m below the last
Staircase(n) == [ k \in 1..n |-> Station(0, 1000 * k, 200 - k) ]

\* a staircase of 8 with a peak 0.001 degrees north of its seventh sample
Fork == << Station(1000, 7000, 250) >> \o Staircase(8)

\* a staircase of 6 with a second, lower sample at the place of its third
Doubled == Staircase(6) \o << Station(0, 3000, 50) >>

\* two samples of one height and a slope below them
Level == << Station(0, 0, 100), Station(0, 1000, 100), Station(0, 2000, 90),
            Station(0, 3000, 80), Station(0, 4000, 70), Station(0, 5000, 60) >>

\* the analysed terrains water flow is computed on: those of the surveyed
\* plots, and sample lists given directly
FlowTopographies ==
  { Terrain(marker, b, surface).topography :
      b \in SampledBoundaries, surface \in SurveyedSurfaces }
  \cup { Staircase(n) : n \in { 0, 3, 4, 12, 25 } }
  \cup { Fork, Doubled, Level }

\* calculateWaterFlow(topography): the flow paths returned, and every path
\* the walk built, kept or not
CallCalculateWaterFlow ==
  /\ call = NoCall
  /\ \E topo \in FlowTopographies :
       /\ call' = [op |-> "calculateWaterFlow", input |-> topo,
                   output |-> [flowPaths |-> calculateWaterFlow(topo),
                               walks |-> WalksFrom(topo, findHighPoints(topo, 10), 1, {})]]
       /\ UNCHANGED << app, sampling >>

\* count samples of one elevation, 0.0001 degrees apart on parallel row
Terrace(row, count, elevation) ==
  [ k \in 1..count |->
      [lat |-> Origin + 100 * row, lng |-> Origin + 100 * k, elevation |-> elevation] ]

\* the sample lists contours are extracted from directly: terraces of 10, 11
\* and 12 samples, at whole metres and 0.4 m and 0.5 m off them
TerracedSamples ==
  { Terrace(1, 11, 100) \o Terrace(2, 11, 105),
    Terrace(1, 10, 100) \o Terrace(2, 1, 120),
    Terrace(1, 1, 21) \o Terrace(2, 12, 96) \o Terrace(3, 3, 104),
    Terrace(1, 6, 46) \o Terrace(2, 6, 54) \o Terrace(3, 11, 55) \o Terrace(4, 11, 70)
      \o Terrace(5, 2, 75),
    << >> }

\* generateContours(demData, interval) with the interval of the synthesizer
\* (1) and the default one (2)
CallGenerateContours ==
  /\ call = NoCall
  /\ \E dem \in TerracedSamples
               \cup { generateDEM(marker[1], marker[2], 50000, b, surface) :
                        b \in SampledBoundaries, surface \in SurveyedSurfaces },
        interval \in { 1, 2 } :
       /\ call' = [op |-> "generateContours",
                   input |-> [demData |-> dem, interval |-> interval],
                   output |-> generateContours(dem, interval)]
       /\ UNCHANGED << app, sampling >>

\* the kinds a placement may be requested for: kinds of the catalog, names
\* that are not in it, and none
RequestedKinds == { "HOUSE", "POND", "SWALE", "GAZEBO", "constructor", "toString", "null" }

\* the element lists a click may find
PlacedLists ==
  { << >>, << PointElement("HOUSE", << Origin + 250, Origin + 1750 >>, 7) >> }

\* onMapClick(latlng) of a render with the given kind selected, boundary
\* and element list
CallOnMapClick ==
  /\ call = NoCall
  /\ \E kind \in RequestedKinds, b \in DrawnBoundaries \cup { Null },
        els \in PlacedLists, latlng \in ClickPoints :
       \E s \in { [Render EXCEPT !.selectedElementType = kind, !.boundary = b,
                                  !.elements = els] } :
         /\ call' = [op |-> "onMapClick",
                     input |-> [state |-> s, latlng |-> latlng],
                     output |-> onMapClick(s, latlng, clock)]
         /\ UNCHANGED << app, sampling >>

\* count samples of one elevation, 0.0005 degrees apart on parallel row
WideTerrace(row, count, elevation) ==
  [ k \in 1..count |->
      [lat |-> Origin + 100 * row, lng |-> Origin + 500 * k, elevation |-> elevation] ]

\* the sample lists of terraced plots: four terraces inside the rectangle;
\* three inside it, the last of 10 samples; one inside it, one that leaves it eastwards after its
\* fourth sample and one north of it
TerracedPlots ==
  { Terrace(1, 11, 50) \o Terrace(2, 11, 60) \o Terrace(3, 11, 70) \o Terrace(4, 11, 80),
    Terrace(1, 12, 50) \o Terrace(2, 11, 60) \o Terrace(3, 10, 70),
    Terrace(1, 12, 50) \o WideTerrace(2, 12, 60) \o Terrace(20, 12, 70) }

\* the element lists a synthesis starts from: none, or a swale placed by hand
SwaleLists ==
  { << >>,
    << LineElement("SWALE", << << Origin + 250, Origin + 250 >>, << Origin + 500, Origin + 500 >> >>, 7) >> }

\* the callback of autoDesignLayout on the rectangle with a terraced terrain
RunSynthesis ==
  /\ call = NoCall
  /\ \E dem \in TerracedPlots, els \in SwaleLists :
       \E c \in { [elements |-> els, boundary |-> Feature(RectRing), marker |-> marker,
                    topography |-> calculateTopography(dem), demData |-> dem,
                    windDirection |-> WindDirection] } :
         \E fixed \in { FixedSteps(c, clock) } :
           \E rnd \in RandomOutcomes(c) :
             /\ call' = [op |-> "synthesis",
                         input |-> [closure |-> c, rnd |-> rnd],
                         output |-> c.elements \o Pushed(c, clock, rnd, fixed)]
             /\ UNCHANGED << app, sampling >>

\* the rings closest points are looked up on: the rectangle and the L-shaped
\* plot, closed by a repeated first vertex or left open
RectilinearRings == { RectRing, LRing, Open(RectRing), Open(LRing) }

\* findClosestPointOnBoundary(point, boundary) with the point given as an
\* array [lat, lng]
CallFindClosestPointOnBoundary ==
  /\ call = NoCall
  /\ \E ring \in RectilinearRings, point \in TestPoints :
       /\ call' = [op |-> "findClosestPointOnBoundary",
                   input |-> [ring |-> ring, point |-> point],
                   output |-> findClosestPointOnBoundary(<< point[2], point[1] >>, Feature(ring))]
       /\ UNCHANGED << app, sampling >>

CallsNext ==
  \/ RunPipeline
  \/ CallGenerateDEM
  \/ CallCalculateTopography
  \/ CallIsPointInBoundary
  \/ CallFilterPointsInBoundary
  \/ CallCalculateWaterFlow
  \/ CallGenerateContours
  \/ CallOnMapClick
  \/ RunSynthesis
  \/ CallFindClosestPointOnBoundary

Calls == Init /\ [][CallsNext]_vars

(***************************************************************************)
(* generateRandomPointInBoundary step by step: one step per pass through   *)
(* the body of its do-while loop (lines 788-798).                          *)
(***************************************************************************)
\* [minLat + (maxLat-minLat)/2, minLng + (maxLng-minLng)/2]
BBoxMidpoint(bnd) ==
  LET b == BBox(Ring(bnd))
  IN  << b.minLat + (b.maxLat - b.minLat) \div 2, b.minLng + (b.maxLng - b.minLng) \div 2 >>

\* the call, up to the loop: the early return of line 772, the bounding box
SampleStart ==
  \E b \in SampledBoundaries :
    /\ sampling = NoSampling
    /\ sampling' = IF ~HasGeometry(b)
                   THEN [pc |-> "returned", boundary |-> b, attempts |-> 0, tested |-> 0,
                         result |-> << DefaultLat, DefaultLng >>]
                   ELSE [pc |-> "loop", boundary |-> b, attempts |-> 0, tested |-> 0,
                         result |-> << 0, 0 >>]
    /\ UNCHANGED << app, call >>

\* a pass that tests the point drawn before it looks at the count
SampleDrawTestFirst ==
  \E d \in RandomDraws :
    /\ sampling.pc = "loop"
    /\ LET b == BBox(Ring(sampling.boundary))
           point == << b.minLat + RoundDiv(d[2] * (b.maxLat - b.minLat), 1000),
                       b.minLng + RoundDiv(d[1] * (b.maxLng - b.minLng), 1000) >>
           attempts == sampling.attempts + 1
       IN  sampling' =
             IF pointInPolygon(<< point[2], point[1] >>, Ring(sampling.boundary))
             THEN [sampling EXCEPT !.pc = "returned", !.attempts = attempts,
                                   !.tested = @ + 1, !.result = point]
             ELSE IF attempts > AttemptBudget
             THEN [sampling EXCEPT !.pc = "returned", !.attempts = attempts,
                                   !.tested = @ + 1,
                                   !.result = BBoxMidpoint(sampling.boundary)]
             ELSE [sampling EXCEPT !.attempts = attempts, !.tested = @ + 1]
    /\ UNCHANGED << app, call >>

\* one pass: draw a point, count the attempt, return the midpoint when the
\* count exceeds the budget, else test the point and return it when inside
SampleDraw ==
  \E d \in RandomDraws :
    /\ sampling.pc = "loop"
    /\ LET b == BBox(Ring(sampling.boundary))
           point == << b.minLat + RoundDiv(d[2] * (b.maxLat - b.minLat), 1000),
                       b.minLng + RoundDiv(d[1] * (b.maxLng - b.minLng), 1000) >>
           attempts == sampling.attempts + 1
       IN  sampling' =
             IF attempts > AttemptBudget
             THEN [sampling EXCEPT !.pc = "returned", !.attempts = attempts,
                                   !.result = BBoxMidpoint(sampling.boundary)]
             ELSE IF pointInPolygon(<< point[2], point[1] >>, Ring(sampling.boundary))
             THEN [sampling EXCEPT !.pc = "returned", !.attempts = attempts,
                                   !.tested = @ + 1, !.result = point]
             ELSE [sampling EXCEPT !.attempts = attempts, !.tested = @ + 1]
    /\ UNCHANGED << app, call >>

SamplingNext ==
  \/ SampleStart
  \/ SampleDraw

\* a call that has started keeps running: JavaScript runs it to completion
Sampling == Init /\ [][SamplingNext]_vars /\ WF_vars(SamplingNext)

(***************************************************************************)
(* Vocabulary of the properties below.                                     *)
(***************************************************************************)
\* contains(position, boundary) for a position <<lat, lng>> and a Feature b
Contains(position, b) == pointInPolygon(<< position[2], position[1] >>, Ring(b))

\* the steps of Next, recognised by what they change
DragStep == drags' = drags + 1
ClickStep == placements' = placements + 1
CompletionStep == timers # << >> /\ timers' = Tail(timers)

\* moveElement(id, newLatLng) as specified: applied to the point element
\* with that id when the target is inside the boundary, rejected otherwise
MoveElement(prev, id, newPosition, b) ==
  IF b = Null \/ Contains(<< newPosition.lat, newPosition.lng >>, b)
  THEN [ i \in DOMAIN prev |->
           IF prev[i].id = id /\ "position" \in DOMAIN prev[i]
           THEN [prev[i] EXCEPT !.position = << newPosition.lat, newPosition.lng >>]
           ELSE prev[i] ]
  ELSE prev

IsPrefix(s, t) == Len(s) <= Len(t) /\ SubSeq(t, 1, Len(s)) = s

CountType(els, type) == Cardinality({ i \in DOMAIN els : els[i].type = type })

\* the kinds the synthesizer handles
SynthesizerKinds ==
  { "HOUSE", "WATER_TANK", "POND_AREA", "COMPOST", "CHICKEN_COOP", "BEEHIVE",
    "SHED", "SWALE", "WINDBREAK", "VEGETABLE_GARDEN", "FRUIT_ORCHARD", "GRAIN_FIELD" }

\* the coordinates <<lat, lng>> of an element's geometry
Coordinates(e) ==
  IF "position" \in DOMAIN e THEN { e.position }
  ELSE IF "polygon" \in DOMAIN e THEN Range(e.polygon)
  ELSE Range(e.points)

\* what a completion step appended to the closure's snapshot
Added == SubSeq(elements', Len(Head(timers).elements) + 1, Len(elements'))

\* a vertex of one polygon lies inside the other: their interiors intersect
Overlap(P, Q) ==
  \/ \E k \in DOMAIN P : pointInPolygon(P[k], Q)
  \/ \E k \in DOMAIN Q : pointInPolygon(Q[k], P)

(***************************************************************************)
(* Properties.                                                             *)
(***************************************************************************)
\* C1: after a drag that moved a point element while a boundary is active,
\* the element's stored position [lat, lng] is inside the boundary polygon.
C1_DragContainment ==
  [][ (DragStep /\ boundary # Null) =>
        \A i \in DOMAIN elements :
          ("position" \in DOMAIN elements[i] /\ elements'[i] # elements[i]) =>
            Contains(elements'[i].position, boundary) ]_vars

\* C2: a drag does to the element list what moveElement specifies for the
\* dragged id and some drop position: a drop outside the active boundary
\* leaves the list as it was, a drop inside changes the position of the
\* point element with that id and nothing else.
C2_RejectedMoveUnchanged ==
  [][ DragStep =>
        \E i \in DOMAIN elements, newPosition \in DropPoints :
          elements' = MoveElement(elements, elements[i].id, newPosition, boundary) ]_vars

\* C3: a map click with a kind selected appends the new element when the
\* click is inside the active boundary (or there is none) and leaves the
\* element list unchanged when the click is outside it.
C3_OutsideClickRejected ==
  [][ ClickStep =>
        \E latlng \in ClickPoints :
          elements' = IF boundary = Null \/ Contains(<< latlng.lat, latlng.lng >>, boundary)
                      THEN Append(elements, NewElement(selectedElementType, latlng, clock))
                      ELSE elements ]_vars

\* C4: the completion of a synthesis only appends: the element list just
\* before the completion step is a prefix of the list just after it.
C4_CompletionOnlyAppends == [][ CompletionStep => IsPrefix(elements, elements') ]_vars

\* C5: for every kind the synthesizer handles, if an element of that kind
\* was in the element list when the synthesis was invoked, the completed
\* synthesis adds no element of that kind.
C5_IdempotentPerKind ==
  [][ CompletionStep =>
        \A type \in SynthesizerKinds :
          HasType(Head(timers).elements, type) =>
            CountType(elements', type) = CountType(Head(timers).elements, type) ]_vars

\* a second synthesis has completed that found the kinds of the first in the list
C5_Witness ==
  /\ lastRun.ran
  /\ timers = << >>
  /\ { "HOUSE", "WATER_TANK", "POND_AREA", "WINDBREAK", "VEGETABLE_GARDEN",
       "FRUIT_ORCHARD", "GRAIN_FIELD" } \subseteq lastRun.present
  /\ HasType(elements, "HOUSE")

\* C6: at most one synthesis is in flight at any time, and the designing
\* flag is true exactly while one is.
C6_OneJobInFlight ==
  /\ Len(timers) <= 1
  /\ isDesigning <=> timers # << >>

\* a synthesis is pending on a boundary while the user has changed the list
C6_Witness ==
  /\ Len(timers) = 1
  /\ isDesigning
  /\ boundary # Null
  /\ elements # timers[1].elements

\* C7: a synthesis that appends elements at its completion computed them
\* from the boundary and the terrain that are current at the completion.
C7_NoStaleCompletion ==
  [][ (CompletionStep /\ Len(elements') > Len(Head(timers).elements)) =>
        /\ Head(timers).boundary = boundary
        /\ Head(timers).demData = demData
        /\ Head(timers).topography = topography ]_vars

\* the terrain group t is the one derived from marker m and boundary b
DerivedFrom(t, m, b) ==
  \E surface \in Surfaces :
    /\ t.demData = TerrainOf[TerrainKey(m, b, surface)].demData
    /\ t.topography = TerrainOf[TerrainKey(m, b, surface)].topography
    /\ t.waterFlow = TerrainOf[TerrainKey(m, b, surface)].waterFlow

\* C8: in every state a handler can run in, demData, topography and
\* waterFlow are those derived, one from the other, from the current marker
\* and boundary; and what a pending callback holds was derived from the
\* marker and boundary it holds.
C8_TerrainDerivedFromCurrent ==
  /\ DerivedFrom([demData |-> demData, topography |-> topography, waterFlow |-> waterFlow],
                 marker, boundary)
  /\ \A k \in DOMAIN timers :
       \E surface \in Surfaces :
         /\ timers[k].demData = TerrainOf[TerrainKey(timers[k].marker, timers[k].boundary, surface)].demData
         /\ timers[k].topography = TerrainOf[TerrainKey(timers[k].marker, timers[k].boundary, surface)].topography

\* the boundary was reshaped while a synthesis was pending on the old one
C8_Witness ==
  /\ timers # << >>
  /\ boundary # Null
  /\ boundary # timers[1].boundary
  /\ demData # timers[1].demData
  /\ topography # << >>

\* C9: every coordinate of every element a synthesis adds is inside the
\* boundary the synthesis ran on.
C9_SynthesisContainment ==
  [][ CompletionStep =>
        \A k \in DOMAIN Added :
          \A coordinate \in Coordinates(Added[k]) :
            Contains(coordinate, Head(timers).boundary) ]_vars

\* C10: no two polygon elements added by one synthesis overlap.
C10_SynthesisNonOverlapping ==
  [][ CompletionStep =>
        \A j, k \in DOMAIN Added :
          (j < k /\ "polygon" \in DOMAIN Added[j] /\ "polygon" \in DOMAIN Added[k]) =>
            ~Overlap(Added[j].polygon, Added[k].polygon) ]_vars

\* the topography samples that are interior to the boundary b
InteriorSamples(topo, b) ==
  { i \in DOMAIN topo : Contains(<< topo[i].lat, topo[i].lng >>, b) }

\* the elements of the given kind in a list
OfType(els, type) == SelectSeq(els, LAMBDA e : e.type = type)

\* the centre of a polygon element: the mean of its 36 distinct vertices
Centre(polygon) ==
  << RoundDiv(SumSeq([ k \in 1..36 |-> polygon[k][1] ]), 36),
     RoundDiv(SumSeq([ k \in 1..36 |-> polygon[k][2] ]), 36) >>

\* C11: terrain generation, analysis and one synthesis on an empty list,
\* for a boundary with an interior topography sample, yield exactly one
\* house, exactly one water tank and a pond whose centre is inside.
C11_EndToEnd ==
  (call.op = "pipeline" /\ InteriorSamples(call.output.topography, call.input.boundary) # {}) =>
    /\ CountType(call.output.elements, "HOUSE") = 1
    /\ CountType(call.output.elements, "WATER_TANK") = 1
    /\ \E k \in DOMAIN call.output.elements :
         /\ call.output.elements[k].type = "POND_AREA"
         /\ Contains(Centre(call.output.elements[k].polygon), call.input.boundary)

\* C12: with an interior topography sample and no water tank present, the
\* synthesis places the water tank at a sample whose elevation is the
\* maximum over all interior samples.
C12_TankAtInteriorMaximum ==
  LET topo == call.output.topography
      interior == InteriorSamples(topo, call.input.boundary)
      tanks == OfType(call.output.elements, "WATER_TANK")
  IN  (call.op = "pipeline" /\ interior # {}) =>
        /\ tanks # << >>
        /\ \E i \in interior :
             /\ tanks[1].position = << topo[i].lat, topo[i].lng >>
             /\ \A j \in interior : topo[j].elevation <= topo[i].elevation

\* the kinds placed at a fixed offset from the house, with their offsets
OffsetKinds ==
  [COMPOST |-> << CompostOffsetLat, CompostOffsetLng >>,
   CHICKEN_COOP |-> << CoopOffsetLat, CoopOffsetLng >>,
   BEEHIVE |-> << BeeOffsetLat, BeeOffsetLng >>,
   SHED |-> << ShedOffsetLat, ShedOffsetLng >>]

\* the kinds whose step has no condition but the absence of the kind
ZoneKinds == { "VEGETABLE_GARDEN", "FRUIT_ORCHARD", "GRAIN_FIELD" }

\* the offset point of an offset kind for the callback's closure c
OffsetPoint(c, type) ==
  << HousePos(c)[1] + OffsetKinds[type][1], HousePos(c)[2] + OffsetKinds[type][2] >>

\* C13: whatever steps a synthesis skips, at its completion the designing
\* flag is cleared, the list the callback started from is extended, every
\* offset kind that is missing and whose offset point is inside the
\* boundary is added, and every zone kind that is missing is added.
C13_SkipDoesNotAbort ==
  [][ CompletionStep =>
        /\ isDesigning' = FALSE
        /\ IsPrefix(Head(timers).elements, elements')
        /\ \A type \in DOMAIN OffsetKinds :
             ( /\ ~HasType(Head(timers).elements, type)
               /\ Contains(OffsetPoint(Head(timers), type), Head(timers).boundary) )
             <=> CountType(Added, type) = 1
        /\ \A type \in ZoneKinds :
             ~HasType(Head(timers).elements, type) <=> CountType(Added, type) = 1 ]_vars

\* a synthesis has completed that skipped the compost step and added the zones
C13_Witness ==
  /\ lastRun.ran
  /\ ~isDesigning
  /\ lastRun.present = {}
  /\ ~HasType(elements, "COMPOST")
  /\ HasType(elements, "HOUSE")
  /\ \A type \in ZoneKinds : HasType(elements, type)

\* twice the signed area of a ring: the shoelace sum, taken from its first vertex
TwiceArea(ring) ==
  LET x(k) == ring[k][1] - ring[1][1]
      y(k) == ring[k][2] - ring[1][2]
  IN  SumSeq([ k \in 1..(Len(ring) - 1) |-> x(k) * y(k + 1) - x(k + 1) * y(k) ])

PositiveArea(b) == HasGeometry(b) /\ TwiceArea(Ring(b)) # 0

\* C14: the point generateRandomPointInBoundary returns for a boundary of
\* positive area is inside the boundary, the fallback point included.
C14_SampleInside ==
  (sampling.pc = "returned" /\ PositiveArea(sampling.boundary)) =>
    Contains(sampling.result, sampling.boundary)

\* C15: a run of generateRandomPointInBoundary tests at most 1000 points,
\* returns the middle of the bounding box when the budget is used up, and
\* returns in the end, whatever the boundary and the draws.
C15_SamplingTerminates ==
  /\ [](sampling.pc # "idle" => sampling.tested <= AttemptBudget)
  /\ []((sampling.pc = "returned" /\ sampling.attempts > AttemptBudget) =>
          sampling.result = BBoxMidpoint(sampling.boundary))
  /\ <>(sampling.pc = "returned")

\* every one of the 1000 points tested missed and the midpoint was returned
C15_Witness ==
  /\ sampling.pc = "returned"
  /\ sampling.tested = AttemptBudget
  /\ sampling.attempts = AttemptBudget + 1
  /\ sampling.result = BBoxMidpoint(sampling.boundary)

\* the edges of a ring, the closing edge from its last vertex to its first included
Edges(ring) ==
  { << ring[k], ring[IF k = Len(ring) THEN 1 ELSE k + 1] >> : k \in DOMAIN ring }

\* the cross product of (q - a) and (b - a)
Cross(a, b, q) == (q[1] - a[1]) * (b[2] - a[2]) - (q[2] - a[2]) * (b[1] - a[1])

\* q lies on an edge of the ring
OnRing(q, ring) ==
  \E e \in Edges(ring) :
    /\ Cross(e[1], e[2], q) = 0
    /\ Min(e[1][1], e[2][1]) <= q[1] /\ q[1] <= Max(e[1][1], e[2][1])
    /\ Min(e[1][2], e[2][2]) <= q[2] /\ q[2] <= Max(e[1][2], e[2][2])

\* the reference test: the parity of the number of edges that the ray from
\* q towards the north crosses, in exact integer arithmetic
ReferenceInside(q, ring) ==
  LET crosses(e) ==
        LET a == IF e[1][1] <= e[2][1] THEN e[1] ELSE e[2]
            b == IF e[1][1] <= e[2][1] THEN e[2] ELSE e[1]
        IN  /\ (a[1] > q[1]) # (b[1] > q[1])
            /\ Cross(a, b, q) > 0
      crossed == { k \in DOMAIN ring :
                     crosses(<< ring[k], ring[IF k = Len(ring) THEN 1 ELSE k + 1] >>) }
  IN  Cardinality(crossed) % 2 = 1

\* the boundary of a call is a Feature with a ring of at least 3 vertices
ValidRing(b) == HasGeometry(b) /\ Len(Ring(b)) >= 3

\* C16: for a ring of at least 3 vertices and a point that is not on it,
\* isPointInBoundary, given the point in either shape, answers as the
\* reference even-odd ray-casting test does.
C16_ContainsAgreesWithReference ==
  ( /\ call.op = "isPointInBoundary"
    /\ ValidRing(call.input.boundary)
    /\ ~OnRing(call.input.point, Ring(call.input.boundary)) ) =>
    call.output = ReferenceInside(call.input.point, Ring(call.input.boundary))

\* a point given as an object, inside the bounding box of the L-shaped
\* plot left open and outside the plot, was tested and found outside
C16_Witness ==
  /\ call.op = "isPointInBoundary"
  /\ call.input.shape = "object"
  /\ call.input.boundary = Feature(Open(LRing))
  /\ call.input.point = << Origin + 1250, Origin + 1000 >>
  /\ call.output = FALSE

\* C17: for what is no boundary (null, no geometry, a ring of fewer than 3
\* vertices) isPointInBoundary answers true for every point and
\* filterPointsInBoundary returns the list it was given.
C17_InvalidBoundarySafeDefault ==
  /\ (call.op = "isPointInBoundary" /\ ~ValidRing(call.input.boundary)) =>
       call.output = TRUE
  /\ (call.op = "filterPointsInBoundary" /\ ~ValidRing(call.input.boundary)) =>
       call.output = call.input.points

\* C18: every sample generateDEM returns has a numeric elevation of at least
\* 2 metres, with a boundary or without, also for a boundary whose bounding
\* box has no width or no height.
C18_ElevationDefinedAndAtLeastTwo ==
  call.op = "generateDEM" =>
    \A k \in DOMAIN call.output :
      /\ call.output[k].elevation # NaN
      /\ call.output[k].elevation >= MinElevation

\* the samples of dem, other than sample i, within the neighbour window of it
NeighboursOf(dem, i) ==
  { k \in DOMAIN dem \ { i } :
      /\ Abs(dem[k].lat - dem[i].lat) < NeighborWindow
      /\ Abs(dem[k].lng - dem[i].lng) < NeighborWindow }

\* C19: every sample calculateTopography emits has slope >= 0 and aspect in
\* [0, 360).
C19_SlopeAndAspectRange ==
  call.op = "calculateTopography" =>
    \A k \in DOMAIN call.output :
      /\ call.output[k].slope >= 0
      /\ 0 <= call.output[k].aspect /\ call.output[k].aspect < 360

\* lat, lng and elevation of a sample
Located(p) == << p.lat, p.lng, p.elevation >>

\* C20: calculateTopography emits the input samples that have at least 3
\* other samples within the neighbour window, each exactly once and with
\* its lat, lng and elevation, and no other sample.
C20_ExactlyTheSamplesWithThreeNeighbours ==
  call.op = "calculateTopography" =>
    LET dem == call.input
        out == call.output
        kept == { i \in DOMAIN dem : Cardinality(NeighboursOf(dem, i)) >= 3 }
    IN  /\ Len(out) = Cardinality(kept)
        /\ \A i \in DOMAIN dem :
             Cardinality({ k \in DOMAIN out : Located(out[k]) = Located(dem[i]) })
               = Cardinality({ j \in kept : Located(dem[j]) = Located(dem[i]) })

\* five samples were analysed: the four of the cluster were emitted, the
\* far one, which has no neighbour, was dropped
C20_Witness ==
  /\ call.op = "calculateTopography"
  /\ Len(call.input) = 5
  /\ Len(call.output) = 4
  /\ \A k \in DOMAIN call.output : Located(call.output[k]) # Located(FarSample)

\* the samples of topo strictly higher than p
HigherThan(topo, p) == { i \in DOMAIN topo : topo[i].elevation > p.elevation }

\* q is inside the 0.002 degree window of p
InFlowWindow(p, q) == Abs(q.lat - p.lat) < 2000 /\ Abs(q.lng - p.lng) < 2000

\* C21: every flow path calculateWaterFlow returns has more than 3 and at
\* most 21 points, starts at a sample of the input that fewer than 10 samples
\* are higher than, and each of its steps goes to a sample of the input that
\* is strictly lower and inside the 0.002 degree window of the current point.
C21_FlowPathsDescend ==
  call.op = "calculateWaterFlow" =>
    LET topo == call.input
        flowPaths == call.output.flowPaths
    IN  \A n \in DOMAIN flowPaths :
          LET path == flowPaths[n]
          IN  /\ Len(path) > 3
              /\ Len(path) <= 21
              /\ path[1] \in Range(topo)
              /\ Cardinality(HigherThan(topo, path[1])) < 10
              /\ \A k \in 1..(Len(path) - 1) :
                    /\ path[k + 1] \in Range(topo)
                    /\ path[k + 1].elevation < path[k].elevation
                    /\ InFlowWindow(path[k], path[k + 1])

\* a path of 21 points was returned for a terrain of more than 21 samples,
\* and another call returned a path of fewer points
C21_Witness ==
  /\ call.op = "calculateWaterFlow"
  /\ Len(call.input) > 21
  /\ \E n \in DOMAIN call.output.flowPaths : Len(call.output.flowPaths[n]) = 21

\* the places <<lat, lng>> of a path
Places(path) == { Key(path[k]) : k \in DOMAIN path }

\* C22: no sample coordinate appears in two paths built by one
\* calculateWaterFlow call, returned or discarded for having 3 points or
\* fewer, nor twice in one path; the returned paths are among those built.
C22_WaypointsNotShared ==
  call.op = "calculateWaterFlow" =>
    LET walks == call.output.walks
        flowPaths == call.output.flowPaths
    IN  /\ \A n \in DOMAIN flowPaths : \E m \in DOMAIN walks : walks[m] = flowPaths[n]
        /\ \A m \in DOMAIN walks : Cardinality(Places(walks[m])) = Len(walks[m])
        /\ \A m, n \in DOMAIN walks : m # n => Places(walks[m]) \cap Places(walks[n]) = {}
        /\ \A m, n \in DOMAIN flowPaths :
              m # n => Places(flowPaths[m]) \cap Places(flowPaths[n]) = {}

\* a returned path ends next to a lower sample that a discarded path of two
\* or three points has consumed
C22_Witness ==
  /\ call.op = "calculateWaterFlow"
  /\ \E n \in DOMAIN call.output.flowPaths, m \in DOMAIN call.output.walks :
       LET path == call.output.flowPaths[n]
           walk == call.output.walks[m]
       IN  /\ Len(walk) \in 2..3
           /\ \E k \in DOMAIN walk :
                /\ walk[k].elevation < path[Len(path)].elevation
                /\ InFlowWindow(path[Len(path)], walk[k])

\* the lowest and the highest elevation of a sample list
Lowest(dem) ==
  CHOOSE h \in { dem[i].elevation : i \in DOMAIN dem } :
    \A i \in DOMAIN dem : h <= dem[i].elevation
Highest(dem) ==
  CHOOSE h \in { dem[i].elevation : i \in DOMAIN dem } :
    \A i \in DOMAIN dem : h >= dem[i].elevation

\* the least whole metre, in decimetres, that is not below h
WholeMetreAbove(h) == CHOOSE base \in h..(h + 9) : base % 10 = 0

\* C23: every contour generateContours returns has more than 10 points, its
\* level is the least whole metre not below the lowest elevation plus a
\* multiple k >= 0 of the interval, is at most the highest elevation, and its
\* points are the input samples less than 0.5 m from the level, no others.
C23_ContourLevelsAndPoints ==
  call.op = "generateContours" =>
    LET dem == call.input.demData
        step == 10 * call.input.interval
    IN  \A n \in DOMAIN call.output :
          LET contour == call.output[n]
              near(p) == Abs(p.elevation - contour.level) < 5
          IN  /\ Len(contour.points) > 10
              /\ contour.level <= Highest(dem)
              /\ contour.level >= WholeMetreAbove(Lowest(dem))
              /\ (contour.level - WholeMetreAbove(Lowest(dem))) % step = 0
              /\ contour.points = SelectSeq(dem, near)

\* a contour above the first level was returned that leaves out a sample
\* exactly 0.5 m from its level
C23_Witness ==
  /\ call.op = "generateContours"
  /\ \E n \in DOMAIN call.output, i \in DOMAIN call.input.demData :
       /\ Abs(call.input.demData[i].elevation - call.output[n].level) = 5
       /\ call.output[n].level > WholeMetreAbove(Lowest(call.input.demData))

\* C24: no element that Clear All Elements removed is in the element list
\* again, a synthesis pending at the time of the clear included.
C24_ClearedStayCleared == \A k \in DOMAIN elements : elements[k].id \notin cleared

\* C25: a click with a kind selected that is not in the element catalog
\* leaves the element list, the marker and the environment record as they
\* were: no element, whole or partial, is added.
C25_UnknownKindRejected ==
  ( /\ call.op = "onMapClick"
    /\ call.input.state.selectedElementType # "null"
    /\ call.input.state.selectedElementType \notin DOMAIN ELEMENT_TYPES ) =>
      /\ call.output.elements = call.input.state.elements
      /\ call.output.marker = call.input.state.marker
      /\ call.output.env = call.input.state.env

\* a click inside the boundary with a name selected that every object has
C25_Witness ==
  /\ call.op = "onMapClick"
  /\ call.input.state.selectedElementType \in InheritedKeys
  /\ call.input.state.boundary # Null
  /\ Contains(<< call.input.latlng.lat, call.input.latlng.lng >>, call.input.state.boundary)
  /\ call.input.state.elements # << >>

\* C26: the compost, chicken coop, beehive and shed a synthesis adds are at
\* their fixed offsets from the position of the house of the resulting
\* list, also when that house was added by the same synthesis.
C26_OffsetsFromTheHouse ==
  [][ CompletionStep =>
        \A k \in DOMAIN Added :
          Added[k].type \in DOMAIN OffsetKinds =>
            /\ HasType(elements', "HOUSE")
            /\ Added[k].position =
                 << OfType(elements', "HOUSE")[1].position[1] + OffsetKinds[Added[k].type][1],
                    OfType(elements', "HOUSE")[1].position[2] + OffsetKinds[Added[k].type][2] >> ]_vars

\* the whole-metre levels of a sample list at which more than 10 samples
\* are less than 0.5 m away
ContourLevels(dem) ==
  { level \in WholeMetreAbove(Lowest(dem))..Highest(dem) :
      /\ level % 10 = 0
      /\ Cardinality({ i \in DOMAIN dem : Abs(dem[i].elevation - level) < 5 }) > 10 }

\* what a synthesis call appended to the list it started from
AddedByCall ==
  SubSeq(call.output, Len(call.input.closure.elements) + 1, Len(call.output))

\* C27: one synthesis adds at most 3 swales, none when the list it started
\* from has a swale, and every swale it adds is a line of at least 3
\* vertices, all of them samples of one contour level of the 1 m interval
\* and inside the boundary the synthesis ran on.
C27_SwalesCappedAndOnContours ==
  call.op = "synthesis" =>
    LET c == call.input.closure
        swales == OfType(AddedByCall, "SWALE")
    IN  /\ Len(swales) <= 3
        /\ HasType(c.elements, "SWALE") => swales = << >>
        /\ \A n \in DOMAIN swales :
             /\ "points" \in DOMAIN swales[n]
             /\ Len(swales[n].points) >= 3
             /\ \E level \in ContourLevels(c.demData) :
                  \A k \in DOMAIN swales[n].points :
                    \E i \in DOMAIN c.demData :
                      /\ << c.demData[i].lat, c.demData[i].lng >> = swales[n].points[k]
                      /\ Abs(c.demData[i].elevation - level) < 5
             /\ \A k \in DOMAIN swales[n].points : Contains(swales[n].points[k], c.boundary)

\* a synthesis added 3 swales on a terrain with more than 3 contour levels
C27_Witness ==
  /\ call.op = "synthesis"
  /\ Len(OfType(AddedByCall, "SWALE")) = 3
  /\ Cardinality(ContourLevels(call.input.closure.demData)) > 3

\* C28: the point findClosestPointOnBoundary returns lies on an edge of the
\* polygon, the edge from the last vertex back to the first included, and
\* no point of any edge is closer to the query point.  On rings whose edges
\* run along parallels and meridians the closest point to a grid point is a
\* grid point, so the grid points on the ring are the ones compared.
C28_ClosestPointOnAnyEdge ==
  call.op = "findClosestPointOnBoundary" =>
    LET ring == call.input.ring
        q == call.input.point
        r == << call.output[2], call.output[1] >>
    IN  /\ OnRing(r, ring)
        /\ \A p \in TestPoints :
             OnRing(p, ring) =>
               DistanceSq(q[1], q[2], r[1], r[2]) <= DistanceSq(q[1], q[2], p[1], p[2])

\* the handlers a pending synthesis leaves enabled: placement, drag, clear
\* and the boundary handlers, each within the events the model allows
PendingLeavesEnabled ==
  /\ (selectedElementType # "null" /\ placements < MaxPlacements /\ Events < MaxEvents)
       => ENABLED PlaceElement
  /\ (drags < MaxDrags /\ \E i \in DOMAIN elements : "position" \in DOMAIN elements[i])
       => ENABLED onElementDrag
  /\ elements # << >> => ENABLED onClearElements
  /\ (boundaryEvents < MaxBoundaryEvents /\ Events < MaxEvents)
       => (ENABLED handleCreate /\ ENABLED handleEdit /\ ENABLED handleDelete)

\* C29: once the designing flag is set it is eventually cleared again, by a
\* completion that sets the element list to an extension of the list the
\* request was made on; while the flag is set, placement, drag, clear and
\* the boundary handlers stay enabled.
C29_SynthesisEventuallyCompletes ==
  /\ isDesigning ~> ~isDesigning
  /\ [][ (isDesigning /\ ~isDesigning') =>
           (CompletionStep /\ IsPrefix(Head(timers).elements, elements')) ]_vars
  /\ [](isDesigning => PendingLeavesEnabled)

\* a synthesis has completed after an element was dropped while it was pending
C29_Witness ==
  /\ lastRun.ran
  /\ ~isDesigning
  /\ drags = 1
  /\ Events > MaxEvents

\* the fields of the environment record a climate answer carries
ClimateFields == { "source", "avgRainfallMm", "sunHours", "monthlyRainfall", "climateSource" }

\* C30: a step in which a lookup resolves changes the environment record
\* only if the lookup was made for the location the record holds, and then
\* only in its climate fields; it leaves the marker, the boundary, the
\* terrain group and the element list alone.
C30_StaleClimateDropped ==
  [][ \A l \in lookups : lookups' = lookups \ { l } =>
        /\ env' # env => (l.lat = env.lat /\ l.lng = env.lng)
        /\ \A f \in DOMAIN env \ ClimateFields : env'[f] = env[f]
        /\ UNCHANGED << marker, boundary, terrain, elements >> ]_vars

\* the answer for an earlier location has arrived after the location
\* changed and was dropped: no answer has been merged yet, and the only
\* lookup left in flight is the one for the present location
C30_Witness ==
  /\ << env.lat, env.lng >> # << InitLat, InitLng >>
  /\ lookups = { Lookup(env.lat, env.lng) }
  /\ env.climateSource = "loading..."

====
